---- MODULE Spec2Model ----
(***************************************************************************)
(* A model of bpf-api's kernel-object wrappers: Program, Map (with its     *)
(* mmap cache) and Probe, together with the part of the kernel they talk   *)
(* to (the process's descriptor table and its memory mappings).            *)
(*                                                                         *)
(* Specifications:                                                         *)
(*   Spec      Programs and a Probe: create, attach, detach, drop          *)
(*   MapSpec   a Map and its mmap cache: create, get_map(_mut), drop       *)
(*   ConcSpec  several threads inside Map::get_map on one shared Map       *)
(*   LifeSpec  Programs, a Map and a Probe together, MaxSteps calls        *)
(***************************************************************************)
EXTENDS Integers, Sequences, FiniteSets, TLC

(***************************************************************************)
(* Bounds of the model.                                                    *)
(***************************************************************************)
\* The descriptor table holds the numbers 3..MaxFd (0..2 are stdio).
MaxFd == 6
\* Program objects created in one behaviour.
MaxProgs == 2
\* What num_cpus::get() returns.
NumCpus == 2
\* User pages 1..MaxPage are available to mmap.
MaxPage == 3
\* mmap system calls issued in one behaviour.
MaxMmaps == 2
\* Width of isize/usize, scaled down from 64.
IsizeBits == 16
\* Threads sharing the Map in ConcSpec.
NumThreads == 2
\* Calls made in one behaviour of LifeSpec.
MaxSteps == 6
\* The width of u32, scaled down.
U32Bits == 18
\* The pages of the address space a RingBuffer's mappings are placed in.
MaxRingPage == 7
\* Bytes consumed are counted up to this many times the capacity.
MaxLaps == 2
\* Bytes of the log buffer of Program::create, scaled down from 1 << 20.
LogSize == 3
\* The largest number of entries of an Array, a HashMap or a Queue.
MaxEntries == 2
\* Successful pushes into a Queue in one behaviour.
MaxPushes == 4

(***************************************************************************)
(* Program constants.                                                      *)
(***************************************************************************)
PAGE_SIZE == 4096
ProtRead == 1
ProtWrite == 2
FlagShared == 1
\* isize::min_value()
MAP_FAILED == 0 - (2 ^ (IsizeBits - 1))

\* `x as usize` of an isize x: the same bits read as unsigned.
AsUsize(x) == x % (2 ^ IsizeBits)

(***************************************************************************)
(* The kernel.  A raw system call returns a value >= 0, or -errno.         *)
(***************************************************************************)
EPERM == 0 - 1
ENOMEM == 0 - 12
EINVAL == 0 - 22
EMFILE == 0 - 24

Fds == 3 .. MaxFd
ProgIds == 1 .. MaxProgs
Cpus == 0 .. (NumCpus - 1)
Pages == 1 .. MaxPage

\* A slot of the descriptor table.  kind: what the descriptor refers to;
\* id: the Program object it belongs to or was opened for (0: none);
\* cpu: the processor of a perf event (-1: none); failed: opened by an
\* attach call that returned an error.
FreeFd == [kind |-> "free", id |-> 0, cpu |-> 0 - 1, failed |-> FALSE]

FdRec(kind, id, cpu) == [kind |-> kind, id |-> id, cpu |-> cpu, failed |-> FALSE]

EventKinds == {"rawtp", "perf"}

FreeFds(tab) == {fd \in Fds : tab[fd].kind = "free"}

Min(S) == CHOOSE x \in S : \A y \in S : x <= y

\* The kernel hands out the lowest free number, or fails with EMFILE.
AllocFd(tab) == IF FreeFds(tab) = {} THEN EMFILE ELSE Min(FreeFds(tab))

\* What an fd-creating system call can return: the new descriptor, or an error.
FdCallResults(tab) == {AllocFd(tab), EPERM}

\* close(fd): the slot becomes free; EBADF leaves the table alone.
KClose(tab, fd) ==
    IF fd \in Fds /\ tab[fd].kind # "free" THEN [tab EXCEPT ![fd] = FreeFd] ELSE tab

\* The owner of an open descriptor.
OwnerOf(rec) ==
    CASE rec.kind = "prog" -> <<"Program", rec.id>>
      [] rec.kind = "map" -> <<"Map", 0>>
      [] rec.kind \in EventKinds -> <<"Probe", 0>>
      [] OTHER -> <<"nobody", 0>>

\* A kernel call on fd by `who` is sound when fd is open and belongs to who.
Owns(tab, fd, who) == fd \in Fds /\ OwnerOf(tab[fd]) = who

PagesOf(length) == (length + PAGE_SIZE - 1) \div PAGE_SIZE

FreeBases(vm, n) ==
    {p \in Pages : \A q \in p .. (p + n - 1) : q \in Pages /\ q \notin vm}

\* mmap(0, length, prot, flags, fd, offset): an address the kernel chose
\* among the free ranges, or -errno.
MmapResults(vm, length) ==
    {ENOMEM, EINVAL} \cup
    (IF length = 0 THEN {} ELSE {p * PAGE_SIZE : p \in FreeBases(vm, PagesOf(length))})

MmapEffect(vm, length, r) ==
    IF r < 0 THEN vm
    ELSE vm \cup ((r \div PAGE_SIZE) .. ((r \div PAGE_SIZE) + PagesOf(length) - 1))

\* munmap(addr, length): EINVAL for an unaligned address, an empty length or
\* a range outside the address space; else the pages of the range are unmapped.
MunmapOk(addr, length) ==
    /\ addr % PAGE_SIZE = 0
    /\ length > 0
    /\ addr + length <= 2 ^ (IsizeBits - 1)

MunmapEffect(vm, addr, length) ==
    IF MunmapOk(addr, length)
    THEN vm \ ((addr \div PAGE_SIZE) .. ((addr \div PAGE_SIZE) + PagesOf(length) - 1))
    ELSE vm

(***************************************************************************)
(* HashMap insert / remove on a function with a finite domain.             *)
(***************************************************************************)
EmptyMap == [x \in {} |-> 0]

Insert(f, k, v) == [x \in (DOMAIN f) \cup {k} |-> IF x = k THEN v ELSE f[x]]

Remove(f, k) == [x \in (DOMAIN f) \ {k} |-> f[x]]

Range(s) == {s[i] : i \in DOMAIN s}

(***************************************************************************)
(* State.                                                                  *)
(***************************************************************************)
VARIABLES
    fdtab,          \* kernel: the descriptor table
    vmas,           \* kernel: the mapped pages of the process
    prog,           \* Program objects: [state, fd]
    map_state,      \* "none" | "live" | "dropped"
    map_fd,         \* Map.fd
    mapped_areas,   \* Map.mapped_areas: MappedArea -> usize
    lock,           \* the Mutex around mapped_areas: 0, or the thread holding it
    thr,            \* threads inside get_map: [pc, area, buf]
    probe_state,    \* "none" | "live" | "dropped"
    attach_info,    \* Probe.attach_info
    attach_fds,     \* Probe.attach_fds: program fd -> Seq of event fds
    misuse,         \* history: kernel calls on a descriptor the caller does not own
    mmap_calls,     \* history: MappedArea -> number of mmap calls issued for it
    ret_addrs,      \* history: MappedArea -> base addresses returned for it
    munmap_log,     \* history: the munmap calls of Drop for Map
    map_closes,     \* history: close calls of the Map on its descriptor
    last,           \* history: the last call and its result
    steps,          \* history: calls made so far (counted in LifeSpec only)
    rb_state,       \* RingBuffer: "none" | "live" | "crashed" | "dropped"
    rb_capacity,    \* RingBuffer.capacity
    consumer_pos,   \* kernel: the consumer position, page 0 of the ring's map
    producer_pos,   \* kernel: the producer position, page 1 of the ring's map
    meta,           \* a RingMeta value: [cons_pos, prod_pos, capacity]
    slice,          \* the slice get_buf returned, while borrowed: [held, start, end]
    consumed,       \* history: bytes the consume calls advanced by (TallySpec only)
    diag,           \* Program::create: [log_out, buf, sink] of the last call
    kmap,           \* a collection's Map<K, V> and its kernel object: [map_type, K, V,
                    \* key_size, value_size, max_entries, elems]
    fifo            \* history: the values a Queue took and gave: [pushed, popped]

kernelVars == <<fdtab, vmas>>
mapVars == <<map_state, map_fd, mapped_areas, mmap_calls, ret_addrs, munmap_log, map_closes>>
thrVars == <<lock, thr>>
probeVars == <<probe_state, attach_info, attach_fds>>
ringVars == <<rb_state, rb_capacity, consumer_pos, producer_pos, meta, slice>>
vars == <<fdtab, vmas, prog, map_state, map_fd, mapped_areas, lock, thr,
          probe_state, attach_info, attach_fds, misuse, mmap_calls, ret_addrs,
          munmap_log, map_closes, last, steps,
          rb_state, rb_capacity, consumer_pos, producer_pos, meta, slice, consumed,
          diag, kmap, fifo>>

\* op: the call; ok: whether it returned Ok; arg: its argument; raw: the
\* result of its system call; ret: the value it returned; fds: the
\* descriptors it opened (attach) or found recorded (detach, drop); calls:
\* the ioctl calls it made, in order; err: the Error of a RingBuffer call.
\* The log of ioctl calls is kept with it by attach_probe.
Last(op, ok, arg, raw, ret, fds) ==
    [op |-> op, ok |-> ok, arg |-> arg, raw |-> raw, ret |-> ret, fds |-> fds,
     calls |-> << >>, err |-> "none"]

LastAttach(ok, arg, fds, calls) ==
    [op |-> "attach", ok |-> ok, arg |-> arg, raw |-> 0, ret |-> 0, fds |-> fds,
     calls |-> calls, err |-> "none"]

LastErr(op, arg, raw, err) ==
    [op |-> op, ok |-> FALSE, arg |-> arg, raw |-> raw, ret |-> 0, fds |-> {},
     calls |-> << >>, err |-> err]

IdleThread == [pc |-> "idle", area |-> 0, buf |-> 0]

RingMeta(cons_pos, prod_pos, capacity) ==
    [cons_pos |-> cons_pos, prod_pos |-> prod_pos, capacity |-> capacity]

\* No slice of the data area is borrowed.
NoSlice == [held |-> FALSE, start |-> 0, end |-> 0]

Init ==
    /\ fdtab = [fd \in Fds |-> FreeFd]
    /\ vmas = {}
    /\ prog = [i \in ProgIds |-> [state |-> "unborn", fd |-> 0]]
    /\ map_state = "none"
    /\ map_fd = 0
    /\ mapped_areas = EmptyMap
    /\ lock = 0
    /\ thr = [t \in 1 .. NumThreads |-> IdleThread]
    /\ probe_state = "none"
    /\ attach_info = "none"
    /\ attach_fds = EmptyMap
    /\ misuse = {}
    /\ mmap_calls = EmptyMap
    /\ ret_addrs = EmptyMap
    /\ munmap_log = << >>
    /\ map_closes = 0
    /\ last = Last("init", TRUE, 0, 0, 0, {})
    /\ steps = 0
    /\ rb_state = "none"
    /\ rb_capacity = 0
    /\ consumer_pos = 0
    /\ producer_pos = 0
    /\ meta = RingMeta(0, 0, 0)
    /\ slice = NoSlice
    /\ consumed = 0
    /\ diag = [log_out |-> FALSE, buf |-> << >>, sink |-> << >>]
    /\ kmap = [map_type |-> "none", K |-> 0, V |-> 0, key_size |-> 0, value_size |-> 0,
               max_entries |-> 0, elems |-> << >>]
    /\ fifo = [pushed |-> << >>, popped |-> << >>]

\* The kernel calls in `uses` (pairs <<who, fd>>) that are unsound in tab.
Misuses(tab, uses) == {u \in uses : ~Owns(tab, u[2], u[1])}

(***************************************************************************)
(* Program                                                                 *)
(***************************************************************************)
NextProg == Min({i \in ProgIds : prog[i].state = "unborn"})

\* Program::create: bpf(ProgLoad); Err when the result is negative.
ProgramCreate ==
    /\ \E i \in ProgIds : prog[i].state = "unborn"
    /\ \E r \in FdCallResults(fdtab) :
        IF r < 0
        THEN /\ last' = Last("Program::create", FALSE, 0, r, 0, {})
             /\ UNCHANGED <<fdtab, prog>>
        ELSE /\ fdtab' = [fdtab EXCEPT ![r] = FdRec("prog", NextProg, 0 - 1)]
             /\ prog' = [prog EXCEPT ![NextProg] = [state |-> "live", fd |-> r]]
             /\ last' = Last("Program::create", TRUE, NextProg, r, r, {})
    /\ UNCHANGED <<vmas, mapVars, thrVars, probeVars, misuse>>

\* std::str::from_utf8(&buf): Ok with the same bytes when they are
\* well-formed UTF-8 (one to four bytes to a character, no overlong forms,
\* no surrogates, nothing above U+10FFFF), Err otherwise.
from_utf8(v) ==
    LET Cont(b) == 128 <= b /\ b <= 191
        Width(b) == IF b < 128 THEN 1
                    ELSE IF 194 <= b /\ b <= 223 THEN 2
                    ELSE IF 224 <= b /\ b <= 239 THEN 3
                    ELSE IF 240 <= b /\ b <= 244 THEN 4
                    ELSE 0
        Second(b, c) == CASE b = 224 -> 160 <= c /\ c <= 191
                          [] b = 237 -> 128 <= c /\ c <= 159
                          [] b = 240 -> 144 <= c /\ c <= 191
                          [] b = 244 -> 128 <= c /\ c <= 143
                          [] OTHER -> Cont(c)
        RECURSIVE Valid(_)
        Valid(i) ==
            IF i > Len(v) THEN TRUE
            ELSE LET w == Width(v[i]) IN
                 /\ w > 0 /\ i + w - 1 <= Len(v)
                 /\ w >= 2 => Second(v[i], v[i + 1])
                 /\ \A j \in (i + 2) .. (i + w - 1) : Cont(v[j])
                 /\ Valid(i + w)
    IN  [ok |-> Valid(1), str |-> v]

\* The log buffer after bpf(ProgLoad): `vec![0; 1 << 20]`, scaled to LogSize
\* bytes, into which the kernel wrote its log from the start: 'A', the two
\* bytes of U+00E9 in either order or alone, 0xFF.
LogBuffers ==
    {b \in [1 .. LogSize -> {0, 65, 195, 169, 255}] :
        \A i \in 1 .. (LogSize - 1) : b[i] = 0 => b[i + 1] = 0}

\* Program::create(attr, instructions, log_out): the load as ProgramCreate
\* does it, then `write!(log_out, "{}", s)` if from_utf8(&buf) is Ok(s) and
\* log_out is Some; the result of write! is dropped.  log_out: whether a
\* sink is passed; buf: the buffer as the kernel left it.
create(log_out, buf) ==
    /\ ProgramCreate
    /\ diag' = [log_out |-> log_out, buf |-> buf,
                sink |-> IF from_utf8(buf).ok /\ log_out
                         THEN from_utf8(buf).str ELSE << >>]

\* Drop for Program: close(self.fd).
ProgramDrop(i) ==
    /\ prog[i].state = "live"
    /\ misuse' = misuse \cup Misuses(fdtab, {<<<<"Program", i>>, prog[i].fd>>})
    /\ fdtab' = KClose(fdtab, prog[i].fd)
    /\ prog' = [prog EXCEPT ![i].state = "dropped"]
    /\ last' = Last("Program::drop", TRUE, i, 0, 0, {prog[i].fd})
    /\ UNCHANGED <<vmas, mapVars, thrVars, probeVars>>

(***************************************************************************)
(* Map                                                                     *)
(***************************************************************************)
\* The inputs of get_map::<T> / get_map_mut::<T>: size_of::<T>(), offset, count.
ElemSizes == {1, 4}
Offsets == {0, PAGE_SIZE}
Counts == {1, 4, 2 * PAGE_SIZE}
RegionInputs ==
    {in \in [size : ElemSizes, offset : Offsets, count : Counts] :
        in.size * in.count \in {4, 2 * PAGE_SIZE}}

MappedArea(offset, length, prot, flags) ==
    [offset |-> offset, length |-> length, prot |-> prot, flags |-> flags]

RECURSIVE SumOver(_, _)
SumOver(f, S) ==
    IF S = {} THEN 0
    ELSE LET k == CHOOSE x \in S : TRUE IN f[k] + SumOver(f, S \ {k})

MmapsIssued == SumOver(mmap_calls, DOMAIN mmap_calls)

Bump(f, k) == Insert(f, k, IF k \in DOMAIN f THEN f[k] + 1 ELSE 1)

Returned(f, k, addr) == Insert(f, k, IF k \in DOMAIN f THEN f[k] \cup {addr} ELSE {addr})

AllIdle == \A t \in DOMAIN thr : thr[t].pc = "idle"

\* Map::with_capacity: bpf(MapCreate); the cache starts empty.
MapCreate ==
    /\ map_state = "none"
    /\ \E r \in FdCallResults(fdtab) :
        IF r < 0
        THEN /\ last' = Last("Map::with_capacity", FALSE, 0, r, 0, {})
             /\ UNCHANGED <<fdtab, map_state, map_fd>>
        ELSE /\ fdtab' = [fdtab EXCEPT ![r] = FdRec("map", 0, 0 - 1)]
             /\ map_state' = "live"
             /\ map_fd' = r
             /\ last' = Last("Map::with_capacity", TRUE, 0, r, r, {})
    /\ UNCHANGED <<vmas, prog, mapped_areas, mmap_calls, ret_addrs, munmap_log,
                   map_closes, thrVars, probeVars, misuse>>

\* `if buf == MAP_FAILED { return Err(..) }`
MmapFailed(buf) == buf = MAP_FAILED

\* The state of the mutex of mapped_areas after a thread panicked with the
\* guard held: free, and every lock() from now on returns a PoisonError.
Poisoned == 0 - 1

\* GetRegion without the cache lookup: every call maps the area again.
GetRegionNoLookup(op, size, offset, count, prot) ==
    LET area == MappedArea(offset, size * count, prot, FlagShared) IN
    /\ map_state = "live"
    /\ AllIdle /\ lock = 0
    /\ MmapsIssued < MaxMmaps
    /\ \E buf \in MmapResults(vmas, area.length) :
        /\ vmas' = MmapEffect(vmas, area.length, buf)
        /\ mmap_calls' = Bump(mmap_calls, area)
        /\ mapped_areas' = Insert(mapped_areas, area, AsUsize(buf))
        /\ ret_addrs' = Returned(ret_addrs, area, AsUsize(buf))
        /\ last' = Last(op, TRUE, area, buf, AsUsize(buf), {})
    /\ UNCHANGED <<fdtab, prog, map_state, map_fd, munmap_log, map_closes,
                   thrVars, probeVars, misuse>>

\* The body get_map and get_map_mut share: look the area up in the cache
\* under the lock; on a miss mmap it, and unless the result is MAP_FAILED
\* cache `buf as usize` and return a slice at buf.
GetRegion(op, size, offset, count, prot) ==
    LET area == MappedArea(offset, size * count, prot, FlagShared) IN
    /\ map_state = "live"
    /\ AllIdle /\ lock \in {0, Poisoned}
    /\ IF lock = Poisoned
       THEN /\ last' = LastErr(op, area, 0, "MutexPoisoned")
            /\ UNCHANGED <<vmas, mapped_areas, mmap_calls, misuse, ret_addrs>>
       ELSE IF area \in DOMAIN mapped_areas
       THEN /\ last' = Last(op, TRUE, area, 0, mapped_areas[area], {})
            /\ ret_addrs' = Returned(ret_addrs, area, mapped_areas[area])
            /\ UNCHANGED <<vmas, mapped_areas, mmap_calls, misuse>>
       ELSE /\ MmapsIssued < MaxMmaps
            /\ \E buf \in MmapResults(vmas, area.length) :
                /\ vmas' = MmapEffect(vmas, area.length, buf)
                /\ mmap_calls' = Bump(mmap_calls, area)
                /\ misuse' = misuse \cup Misuses(fdtab, {<<<<"Map", 0>>, map_fd>>})
                /\ IF MmapFailed(buf)
                   THEN /\ last' = Last(op, FALSE, area, buf, 0, {})
                        /\ UNCHANGED <<mapped_areas, ret_addrs>>
                   ELSE /\ mapped_areas' = Insert(mapped_areas, area, AsUsize(buf))
                        /\ ret_addrs' = Returned(ret_addrs, area, AsUsize(buf))
                        /\ last' = Last(op, TRUE, area, buf, AsUsize(buf), {})
    /\ UNCHANGED <<fdtab, prog, map_state, map_fd, munmap_log, map_closes,
                   thrVars, probeVars>>

get_map(size, offset, count) == GetRegion("get_map", size, offset, count, ProtRead)

get_map_mut(size, offset, count) == GetRegion("get_map_mut", size, offset, count, ProtWrite)

(***************************************************************************)
(* Map::get_map step by step, for threads sharing one Map (&self).         *)
(***************************************************************************)
Threads == 1 .. NumThreads

\* The MutexGuard is dropped on return: the mutex is released.
Unlock(t) == IF lock = t THEN 0 ELSE lock

\* Lines 229-237: the thread builds its MappedArea.
T_call(t, size, offset, count) ==
    /\ map_state = "live"
    /\ thr[t].pc = "idle"
    /\ thr' = [thr EXCEPT ![t] =
                  [pc |-> "lock",
                   area |-> MappedArea(offset, size * count, ProtRead, FlagShared),
                   buf |-> 0]]
    /\ UNCHANGED <<kernelVars, prog, mapVars, lock, probeVars, misuse, last>>

\* T_lock without mutual exclusion: the call returns although the mutex is held.
T_lock_no_exclusion(t) ==
    /\ thr[t].pc = "lock"
    /\ lock' = t
    /\ thr' = [thr EXCEPT ![t].pc = "lookup"]
    /\ UNCHANGED <<kernelVars, prog, mapVars, probeVars, misuse, last>>

\* T_lock taking the guard out of the PoisonError and going on with it.
T_lock_into_inner(t) ==
    /\ thr[t].pc = "lock"
    /\ lock \in {0, Poisoned}
    /\ lock' = t
    /\ thr' = [thr EXCEPT ![t].pc = "lookup"]
    /\ UNCHANGED <<kernelVars, prog, mapVars, probeVars, misuse, last>>

\* Line 239: self.mapped_areas.lock() returns once no thread holds the
\* mutex; `.or(Err(Error::MutexPoisoned))?` returns the error of a poisoned
\* mutex at once, its guard dropped with the PoisonError.
T_lock(t) ==
    /\ thr[t].pc = "lock"
    /\ lock \in {0, Poisoned}
    /\ IF lock = Poisoned
       THEN /\ last' = LastErr("get_map", thr[t].area, 0, "MutexPoisoned")
            /\ thr' = [thr EXCEPT ![t] = IdleThread]
            /\ UNCHANGED lock
       ELSE /\ lock' = t
            /\ thr' = [thr EXCEPT ![t].pc = "lookup"]
            /\ UNCHANGED last
    /\ UNCHANGED <<kernelVars, prog, mapVars, probeVars, misuse>>

\* Lines 240-242: a hit returns the cached address.
T_lookup(t) ==
    LET area == thr[t].area IN
    /\ thr[t].pc = "lookup"
    /\ IF area \in DOMAIN mapped_areas
       THEN /\ last' = Last("get_map", TRUE, area, 0, mapped_areas[area], {})
            /\ ret_addrs' = Returned(ret_addrs, area, mapped_areas[area])
            /\ lock' = Unlock(t)
            /\ thr' = [thr EXCEPT ![t] = IdleThread]
       ELSE /\ thr' = [thr EXCEPT ![t].pc = "mmap"]
            /\ UNCHANGED <<last, ret_addrs, lock>>
    /\ UNCHANGED <<kernelVars, prog, map_state, map_fd, mapped_areas, mmap_calls,
                   munmap_log, map_closes, probeVars, misuse>>

\* Lines 244-251: the mmap system call.
T_mmap(t) ==
    LET area == thr[t].area IN
    /\ thr[t].pc = "mmap"
    /\ MmapsIssued < MaxMmaps
    /\ \E buf \in MmapResults(vmas, area.length) :
        /\ vmas' = MmapEffect(vmas, area.length, buf)
        /\ thr' = [thr EXCEPT ![t].pc = "insert", ![t].buf = buf]
    /\ mmap_calls' = Bump(mmap_calls, area)
    /\ misuse' = misuse \cup Misuses(fdtab, {<<<<"Map", 0>>, map_fd>>})
    /\ UNCHANGED <<fdtab, prog, map_state, map_fd, mapped_areas, ret_addrs,
                   munmap_log, map_closes, lock, probeVars, last>>

\* Lines 253-258: the MAP_FAILED test, the insert and the return.
T_insert(t) ==
    LET area == thr[t].area
        buf == thr[t].buf
    IN
    /\ thr[t].pc = "insert"
    /\ IF MmapFailed(buf)
       THEN /\ last' = Last("get_map", FALSE, area, buf, 0, {})
            /\ UNCHANGED <<mapped_areas, ret_addrs>>
       ELSE /\ mapped_areas' = Insert(mapped_areas, area, AsUsize(buf))
            /\ ret_addrs' = Returned(ret_addrs, area, AsUsize(buf))
            /\ last' = Last("get_map", TRUE, area, buf, AsUsize(buf), {})
    /\ lock' = Unlock(t)
    /\ thr' = [thr EXCEPT ![t] = IdleThread]
    /\ UNCHANGED <<kernelVars, prog, map_state, map_fd, mmap_calls, munmap_log,
                   map_closes, probeVars, misuse>>

\* Line 257: mapped_areas.insert panics (the table cannot grow).  The thread
\* unwinds with the guard held, which poisons the mutex; the area stays
\* mapped and is not in the cache.
T_insert_panic(t) ==
    /\ thr[t].pc = "insert"
    /\ ~MmapFailed(thr[t].buf)
    /\ last' = LastErr("get_map", thr[t].area, thr[t].buf, "panic")
    /\ lock' = Poisoned
    /\ thr' = [thr EXCEPT ![t] = IdleThread]
    /\ UNCHANGED <<kernelVars, prog, mapVars, probeVars, misuse>>

\* The entries of the cache in the order the iterator yields them.
RECURSIVE Entries(_, _)
Entries(f, S) ==
    IF S = {} THEN << >>
    ELSE LET k == CHOOSE x \in S : TRUE IN <<k>> \o Entries(f, S \ {k})

\* MunmapCalls with the length of one page for every area.
MunmapCallsOnePage(cache) ==
    LET es == Entries(cache, DOMAIN cache) IN
    [i \in 1 .. Len(es) |-> [area |-> es[i], addr |-> cache[es[i]], length |-> PAGE_SIZE]]

\* `for (area, buf) in mapped_areas.iter() { munmap(*buf, area.length); }`
\* (area: the entry the call was made for)
MunmapCalls(cache) ==
    LET es == Entries(cache, DOMAIN cache) IN
    [i \in 1 .. Len(es) |-> [area |-> es[i], addr |-> cache[es[i]], length |-> es[i].length]]

RECURSIVE MunmapAll(_, _)
MunmapAll(vm, calls) ==
    IF calls = << >> THEN vm
    ELSE MunmapAll(MunmapEffect(vm, Head(calls).addr, Head(calls).length), Tail(calls))

\* Drop for Map: close(self.fd), then munmap every cached area;
\* `.lock().expect(..)` panics on a poisoned mutex, before any munmap.
MapDrop ==
    /\ map_state = "live"
    /\ AllIdle /\ lock \in {0, Poisoned}
    /\ misuse' = misuse \cup Misuses(fdtab, {<<<<"Map", 0>>, map_fd>>})
    /\ fdtab' = KClose(fdtab, map_fd)
    /\ map_closes' = map_closes + 1
    /\ IF lock = Poisoned
       THEN /\ UNCHANGED <<munmap_log, vmas>>
            /\ last' = [LastErr("Map::drop", 0, 0, "panic") EXCEPT !.fds = {map_fd}]
       ELSE /\ munmap_log' = MunmapCalls(mapped_areas)
            /\ vmas' = MunmapAll(vmas, MunmapCalls(mapped_areas))
            /\ last' = Last("Map::drop", TRUE, 0, 0, 0, {map_fd})
    /\ map_state' = "dropped"
    /\ UNCHANGED <<prog, map_fd, mapped_areas, mmap_calls, ret_addrs, thrVars, probeVars>>

(***************************************************************************)
(* Probe                                                                   *)
(***************************************************************************)
AttachKinds == {"RawTracepoint", "KProbe", "UProbe"}

\* Probe::create: no kernel call; nothing is attached yet.
ProbeCreate(kind) ==
    /\ probe_state = "none"
    /\ probe_state' = "live"
    /\ attach_info' = kind
    /\ attach_fds' = EmptyMap
    /\ last' = Last("Probe::create", TRUE, kind, 0, 0, {})
    /\ UNCHANGED <<kernelVars, prog, mapVars, thrVars, misuse>>

\* The descriptors in fds, marked as opened by a call that failed.
MarkFailed(tab, fds) ==
    [fd \in Fds |-> IF fd \in Range(fds) THEN [tab[fd] EXCEPT !.failed = TRUE] ELSE tab[fd]]

\* perf_event_open_by_name passing cpu 0 to every perf_event_open.
RECURSIVE perf_event_open_cpu0(_, _, _, _, _)
perf_event_open_cpu0(tab, fds, i, id, refuse) ==
    IF i >= NumCpus THEN [ok |-> TRUE, tab |-> tab, fds |-> fds]
    ELSE LET r == IF i = refuse THEN EPERM ELSE AllocFd(tab) IN
         IF r < 0 THEN [ok |-> FALSE, tab |-> tab, fds |-> fds]
         ELSE perf_event_open_cpu0([tab EXCEPT ![r] = FdRec("perf", id, 0)],
                                   Append(fds, r), i + 1, id, refuse)

\* perf_event_open_by_name from iteration i of `for i in 0..num_cpus::get()`:
\* perf_event_open on cpu i; a negative result returns Err at once, else the
\* descriptor is pushed.  The kernel refuses the call for cpu `refuse`.
RECURSIVE perf_event_open_by_name(_, _, _, _, _)
perf_event_open_by_name(tab, fds, i, id, refuse) ==
    IF i >= NumCpus THEN [ok |-> TRUE, tab |-> tab, fds |-> fds]
    ELSE LET r == IF i = refuse THEN EPERM ELSE AllocFd(tab) IN
         IF r < 0 THEN [ok |-> FALSE, tab |-> tab, fds |-> fds]
         ELSE perf_event_open_by_name([tab EXCEPT ![r] = FdRec("perf", id, i)],
                                      Append(fds, r), i + 1, id, refuse)

Ioctl(call, fd, ok) == [call |-> call, fd |-> fd, ok |-> ok]

\* AttachLoop without the `?` after perf_event_attach: a failed associate
\* is ignored and the event is enabled all the same.
RECURSIVE AttachLoopIgnoreAttach(_, _, _, _, _)
AttachLoopIgnoreAttach(perf_event_fds, j, fds, log, failCall) ==
    IF j > Len(perf_event_fds) THEN [ok |-> TRUE, fds |-> fds, log |-> log]
    ELSE LET fd == perf_event_fds[j]
             log1 == Append(log, Ioctl("attach", fd, failCall # 2 * j - 1))
             log2 == Append(log1, Ioctl("enable", fd, failCall # 2 * j))
         IN  IF failCall = 2 * j THEN [ok |-> FALSE, fds |-> fds, log |-> log2]
             ELSE AttachLoopIgnoreAttach(perf_event_fds, j + 1, Append(fds, fd), log2, failCall)

\* The loop of attach_probe from its j-th descriptor:
\*   perf_event_attach(fd, program.get_fd())?; perf_event_enable(fd)?; fds.push(fd);
\* The kernel fails the ioctl call number failCall (0: none), counted from 1.
RECURSIVE AttachLoop(_, _, _, _, _)
AttachLoop(perf_event_fds, j, fds, log, failCall) ==
    IF j > Len(perf_event_fds) THEN [ok |-> TRUE, fds |-> fds, log |-> log]
    ELSE LET fd == perf_event_fds[j]
             log1 == Append(log, Ioctl("attach", fd, failCall # 2 * j - 1))
             log2 == Append(log1, Ioctl("enable", fd, failCall # 2 * j))
         IN  IF failCall = 2 * j - 1 THEN [ok |-> FALSE, fds |-> fds, log |-> log1]
             ELSE IF failCall = 2 * j THEN [ok |-> FALSE, fds |-> fds, log |-> log2]
             ELSE AttachLoop(perf_event_fds, j + 1, Append(fds, fd), log2, failCall)

\* attach_probe recording the descriptors attached so far when the loop
\* returns early.
attach_probe_partial(i) ==
    \E pmu_ok \in BOOLEAN, refuse \in 0 .. NumCpus, failCall \in 0 .. 2 * NumCpus :
        LET opened == perf_event_open_by_name(fdtab, << >>, 0, i, refuse)
            looped == AttachLoop(opened.fds, 1, << >>, << >>, failCall)
        IN
        IF ~pmu_ok
        THEN /\ last' = LastAttach(FALSE, prog[i].fd, {}, << >>)
             /\ UNCHANGED <<fdtab, attach_fds, misuse>>
        ELSE IF ~opened.ok
        THEN /\ fdtab' = MarkFailed(opened.tab, opened.fds)
             /\ last' = LastAttach(FALSE, prog[i].fd, Range(opened.fds), << >>)
             /\ UNCHANGED <<attach_fds, misuse>>
        ELSE /\ misuse' = misuse \cup
                    Misuses(opened.tab,
                            {<<<<"Probe", 0>>, c.fd>> : c \in Range(looped.log)}
                            \cup {<<<<"Program", i>>, prog[i].fd>>})
             /\ last' = LastAttach(looped.ok, prog[i].fd, Range(opened.fds), looped.log)
             /\ IF looped.ok
                THEN /\ fdtab' = opened.tab
                     /\ attach_fds' = Insert(attach_fds, prog[i].fd, looped.fds)
                ELSE /\ fdtab' = MarkFailed(opened.tab, opened.fds)
                     /\ attach_fds' = Insert(attach_fds, prog[i].fd, looped.fds)

\* Probe::attach_probe: get_pmu_typeid and the opens, then the attach loop,
\* then attach_fds.insert(program.get_fd(), fds).  Every `?` returns early.
attach_probe(i) ==
    \E pmu_ok \in BOOLEAN, refuse \in 0 .. NumCpus, failCall \in 0 .. 2 * NumCpus :
        LET opened == perf_event_open_by_name(fdtab, << >>, 0, i, refuse)
            looped == AttachLoop(opened.fds, 1, << >>, << >>, failCall)
        IN
        IF ~pmu_ok
        THEN /\ last' = LastAttach(FALSE, prog[i].fd, {}, << >>)
             /\ UNCHANGED <<fdtab, attach_fds, misuse>>
        ELSE IF ~opened.ok
        THEN /\ fdtab' = MarkFailed(opened.tab, opened.fds)
             /\ last' = LastAttach(FALSE, prog[i].fd, Range(opened.fds), << >>)
             /\ UNCHANGED <<attach_fds, misuse>>
        ELSE /\ misuse' = misuse \cup
                    Misuses(opened.tab,
                            {<<<<"Probe", 0>>, c.fd>> : c \in Range(looped.log)}
                            \cup {<<<<"Program", i>>, prog[i].fd>>})
             /\ last' = LastAttach(looped.ok, prog[i].fd, Range(opened.fds), looped.log)
             /\ IF looped.ok
                THEN /\ fdtab' = opened.tab
                     /\ attach_fds' = Insert(attach_fds, prog[i].fd, looped.fds)
                ELSE /\ fdtab' = MarkFailed(opened.tab, opened.fds)
                     /\ UNCHANGED attach_fds

\* Probe::attach_raw_tracepoint: bpf(RawTracepointOpen) with the program's
\* descriptor; the one descriptor it returns is recorded.
attach_raw_tracepoint(i) ==
    /\ misuse' = misuse \cup Misuses(fdtab, {<<<<"Program", i>>, prog[i].fd>>})
    /\ \E r \in FdCallResults(fdtab) :
        IF r < 0
        THEN /\ last' = Last("attach", FALSE, prog[i].fd, r, 0, {})
             /\ UNCHANGED <<fdtab, attach_fds>>
        ELSE /\ fdtab' = [fdtab EXCEPT ![r] = FdRec("rawtp", i, 0 - 1)]
             /\ attach_fds' = Insert(attach_fds, prog[i].fd, <<r>>)
             /\ last' = Last("attach", TRUE, prog[i].fd, r, 0, {r})

\* Probe::attach(&mut self, program: &Program)
attach(i) ==
    /\ probe_state = "live"
    /\ prog[i].state = "live"
    /\ IF attach_info = "RawTracepoint" THEN attach_raw_tracepoint(i) ELSE attach_probe(i)
    /\ UNCHANGED <<vmas, prog, mapVars, thrVars, probe_state, attach_info>>

\* close(fd) for every fd of the sequence, in order, by the Probe.
RECURSIVE CloseAll(_, _, _)
CloseAll(tab, fds, bad) ==
    IF fds = << >> THEN [tab |-> tab, bad |-> bad]
    ELSE CloseAll(KClose(tab, Head(fds)), Tail(fds),
                  bad \cup Misuses(tab, {<<<<"Probe", 0>>, Head(fds)>>}))

\* detach without `self.attach_fds.remove(..)`: the entry stays recorded.
detach_keep_entry(i) ==
    LET key == prog[i].fd
        fds == IF key \in DOMAIN attach_fds THEN attach_fds[key] ELSE << >>
        closed == CloseAll(fdtab, fds, {})
    IN
    /\ probe_state = "live"
    /\ prog[i].state = "live"
    /\ fdtab' = closed.tab
    /\ misuse' = misuse \cup closed.bad
    /\ last' = Last("detach", TRUE, key, 0, 0, Range(fds))
    /\ UNCHANGED <<vmas, prog, mapVars, thrVars, probeVars>>

\* detach closing only the first recorded descriptor.
detach_close_first(i) ==
    LET key == prog[i].fd
        fds == IF key \in DOMAIN attach_fds THEN attach_fds[key] ELSE << >>
        closed == CloseAll(fdtab, IF fds = << >> THEN << >> ELSE <<Head(fds)>>, {})
    IN
    /\ probe_state = "live"
    /\ prog[i].state = "live"
    /\ fdtab' = closed.tab
    /\ misuse' = misuse \cup closed.bad
    /\ attach_fds' = Remove(attach_fds, key)
    /\ last' = Last("detach", TRUE, key, 0, 0, Range(fds))
    /\ UNCHANGED <<vmas, prog, mapVars, thrVars, probe_state, attach_info>>

\* detach returning Err(InvalidArgument) when nothing is recorded for the
\* program.
detach_strict(i) ==
    LET key == prog[i].fd
        fds == IF key \in DOMAIN attach_fds THEN attach_fds[key] ELSE << >>
        closed == CloseAll(fdtab, fds, {})
    IN
    /\ probe_state = "live"
    /\ prog[i].state = "live"
    /\ fdtab' = closed.tab
    /\ misuse' = misuse \cup closed.bad
    /\ attach_fds' = Remove(attach_fds, key)
    /\ last' = Last("detach", key \in DOMAIN attach_fds, key, 0, 0, Range(fds))
    /\ UNCHANGED <<vmas, prog, mapVars, thrVars, probe_state, attach_info>>

\* detach ending in `self.attach_fds.clear()`: every entry is forgotten.
detach_clear(i) ==
    LET key == prog[i].fd
        fds == IF key \in DOMAIN attach_fds THEN attach_fds[key] ELSE << >>
        closed == CloseAll(fdtab, fds, {})
    IN
    /\ probe_state = "live"
    /\ prog[i].state = "live"
    /\ fdtab' = closed.tab
    /\ misuse' = misuse \cup closed.bad
    /\ attach_fds' = EmptyMap
    /\ last' = Last("detach", TRUE, key, 0, 0, Range(fds))
    /\ UNCHANGED <<vmas, prog, mapVars, thrVars, probe_state, attach_info>>

\* Probe::detach(&mut self, program: &Program): close what is recorded for
\* the program's descriptor, then remove the entry.
detach(i) ==
    LET key == prog[i].fd
        fds == IF key \in DOMAIN attach_fds THEN attach_fds[key] ELSE << >>
        closed == CloseAll(fdtab, fds, {})
    IN
    /\ probe_state = "live"
    /\ prog[i].state = "live"
    /\ fdtab' = closed.tab
    /\ misuse' = misuse \cup closed.bad
    /\ attach_fds' = Remove(attach_fds, key)
    /\ last' = Last("detach", TRUE, key, 0, 0, Range(fds))
    /\ UNCHANGED <<vmas, prog, mapVars, thrVars, probe_state, attach_info>>

\* The recorded descriptors of all programs, in iteration order.
RECURSIVE Values(_, _)
Values(f, S) ==
    IF S = {} THEN << >>
    ELSE LET k == CHOOSE x \in S : TRUE IN f[k] \o Values(f, S \ {k})

\* Drop for Probe: close every recorded descriptor.
ProbeDrop ==
    LET fds == Values(attach_fds, DOMAIN attach_fds)
        closed == CloseAll(fdtab, fds, {})
    IN
    /\ probe_state = "live"
    /\ probe_state' = "dropped"
    /\ fdtab' = closed.tab
    /\ misuse' = misuse \cup closed.bad
    /\ last' = Last("Probe::drop", TRUE, 0, 0, 0, Range(fds))
    /\ UNCHANGED <<vmas, prog, mapVars, thrVars, attach_info, attach_fds>>

(***************************************************************************)
(* RingMeta: the modular arithmetic of the ring buffer.                    *)
(***************************************************************************)
\* RingMeta::len comparing with `<` where the source has `<=`.
RingMeta_len_strict(m) ==
    IF m.cons_pos < m.prod_pos
    THEN m.prod_pos - m.cons_pos
    ELSE m.capacity - m.cons_pos + m.prod_pos + 1

\* RingMeta::len.  usize arithmetic; in the wrapped branch `capacity -
\* cons_pos` is evaluated first and needs cons_pos <= capacity.
RingMeta_len(m) ==
    IF m.cons_pos <= m.prod_pos
    THEN m.prod_pos - m.cons_pos
    ELSE m.capacity - m.cons_pos + m.prod_pos + 1

\* RingMeta::is_empty
RingMeta_is_empty(m) == RingMeta_len(m) = 0

\* RingMeta::get_cons_pos
get_cons_pos(m) == m.cons_pos % m.capacity

\* RingMeta::consume without `if size > self.len() { size = self.len(); }`.
RingMeta_consume_unclamped(m, size) ==
    [m EXCEPT !.cons_pos = (m.cons_pos + size) % m.capacity]

\* RingMeta::consume without `% self.capacity`.
RingMeta_consume_nomod(m, size) ==
    LET clamped == IF size > RingMeta_len(m) THEN RingMeta_len(m) ELSE size
    IN  [m EXCEPT !.cons_pos = m.cons_pos + clamped]

\* RingMeta::consume, which returns the new self.cons_pos.
RingMeta_consume(m, size) ==
    LET clamped == IF size > RingMeta_len(m) THEN RingMeta_len(m) ELSE size
    IN  [m EXCEPT !.cons_pos = (m.cons_pos + clamped) % m.capacity]

\* `RingMeta { cons_pos, prod_pos, capacity }`
RingMetaNew(cons_pos, prod_pos, capacity) ==
    /\ meta' = RingMeta(cons_pos, prod_pos, capacity)
    /\ last' = Last("RingMeta", TRUE, 0, 0, 0, {})
    /\ UNCHANGED <<kernelVars, prog, mapVars, thrVars, probeVars, misuse,
                   rb_state, rb_capacity, consumer_pos, producer_pos, slice>>

\* meta.len(): arg is the value it was called on, ret the result.
MetaLen ==
    /\ meta.capacity > 0
    /\ last' = Last("RingMeta::len", TRUE, meta, 0, RingMeta_len(meta), {})
    /\ UNCHANGED <<kernelVars, prog, mapVars, thrVars, probeVars, misuse, ringVars>>

\* meta.is_empty()
MetaIsEmpty ==
    /\ meta.capacity > 0
    /\ last' = Last("RingMeta::is_empty", TRUE, meta, 0, RingMeta_is_empty(meta), {})
    /\ UNCHANGED <<kernelVars, prog, mapVars, thrVars, probeVars, misuse, ringVars>>

\* meta.consume(size): arg is the size, raw the value it was called on, ret
\* the position it returned.
MetaConsume(size) ==
    /\ meta.capacity > 0
    /\ meta' = RingMeta_consume(meta, size)
    /\ last' = Last("RingMeta::consume", TRUE, size, meta, meta'.cons_pos, {})
    /\ UNCHANGED <<kernelVars, prog, mapVars, thrVars, probeVars, misuse,
                   rb_state, rb_capacity, consumer_pos, producer_pos, slice>>

(***************************************************************************)
(* RingBuffer                                                              *)
(***************************************************************************)
CONSUMER_OFFSET == 0
PRODUCER_OFFSET == PAGE_SIZE
BUFFER_OFFSET == PAGE_SIZE * 2

U32Max == 2 ^ U32Bits - 1

\* x | y on usize
RECURSIVE BitOr(_, _)
BitOr(x, y) ==
    IF x = 0 THEN y
    ELSE IF y = 0 THEN x
    ELSE (IF x % 2 = 1 \/ y % 2 = 1 THEN 1 ELSE 0) + 2 * BitOr(x \div 2, y \div 2)

\* x >> n on usize
Shr(x, n) == x \div (2 ^ n)

\* `capacity |= capacity >> n`
OrShr(x, n) == BitOr(x, Shr(x, n))

\* RoundCapacity rounding up to whole pages only.
RoundCapacityPagesOnly(min_capacity) ==
    ((min_capacity + (PAGE_SIZE - 1)) \div PAGE_SIZE) * PAGE_SIZE

\* RoundCapacity without `capacity |= capacity >> 2`.
RoundCapacityNoShr2(min_capacity) ==
    LET pages == (min_capacity + (PAGE_SIZE - 1)) \div PAGE_SIZE
        c0 == pages - 1
        c1 == OrShr(c0, 1)
        c4 == OrShr(c1, 4)
        c8 == OrShr(c4, 8)
        c16 == OrShr(c8, 16)
    IN  (c16 + 1) * PAGE_SIZE

\* with_capacity, "round up to the next power of 2 pages":
\*   pages = (min_capacity + (PAGE_SIZE - 1)) / PAGE_SIZE; capacity = pages - 1;
\*   capacity |= capacity >> 1, 2, 4, 8, 16; capacity += 1; capacity *= PAGE_SIZE
RoundCapacity(min_capacity) ==
    LET pages == (min_capacity + (PAGE_SIZE - 1)) \div PAGE_SIZE
        c0 == pages - 1
        c1 == OrShr(c0, 1)
        c2 == OrShr(c1, 2)
        c4 == OrShr(c2, 4)
        c8 == OrShr(c4, 8)
        c16 == OrShr(c8, 16)
    IN  (c16 + 1) * PAGE_SIZE

\* The four areas with_capacity maps: the consumer page readable and
\* writable, the producer page, the data area at twice its size.
ConsumerArea == MappedArea(CONSUMER_OFFSET, PAGE_SIZE, ProtRead, FlagShared)
ConsumerAreaMut == MappedArea(CONSUMER_OFFSET, PAGE_SIZE, ProtWrite, FlagShared)
ProducerArea == MappedArea(PRODUCER_OFFSET, PAGE_SIZE, ProtRead, FlagShared)
\* The data area mapped at its size, not at twice its size.
BufferAreaSingle(capacity) == MappedArea(BUFFER_OFFSET, capacity, ProtRead, FlagShared)

BufferArea(capacity) == MappedArea(BUFFER_OFFSET, capacity * 2, ProtRead, FlagShared)

RingAreas(capacity) ==
    <<ConsumerArea, ConsumerAreaMut, ProducerArea, BufferArea(capacity)>>

\* mmap on the ring's descriptor: -errno, or the address of a free range,
\* which the kernel looks for from the top of the address space or from
\* the bottom.
RingPages == 1 .. MaxRingPage

RingFreeBases(vm, n) ==
    {p \in RingPages : \A q \in p .. (p + n - 1) : q \in RingPages /\ q \notin vm}

Max(S) == CHOOSE x \in S : \A y \in S : x >= y

RingMmapResults(vm, length) ==
    LET bases == RingFreeBases(vm, PagesOf(length)) IN
    IF length = 0 THEN {EINVAL}
    ELSE IF bases = {} THEN {ENOMEM}
    ELSE {ENOMEM, Min(bases) * PAGE_SIZE, Max(bases) * PAGE_SIZE}

\* What a call of get_map / get_map_mut reads and writes: the mapped pages,
\* the cache, the histories, and whether every call so far returned Ok.
MapSt(vm, cache, calls, rets, bad) ==
    [vm |-> vm, cache |-> cache, calls |-> calls, rets |-> rets, bad |-> bad, ok |-> TRUE]

\* One call of get_map / get_map_mut on descriptor fd for `area`, as
\* GetRegion does it; buf is the kernel's answer to mmap on a miss.
RegionCall(st, tab, fd, area, buf) ==
    IF area \in DOMAIN st.cache
    THEN [st EXCEPT !.rets = Returned(@, area, st.cache[area])]
    ELSE LET st1 == [st EXCEPT !.vm = MmapEffect(@, area.length, buf),
                               !.calls = Bump(@, area),
                               !.bad = @ \cup Misuses(tab, {<<<<"Map", 0>>, fd>>})]
         IN  IF MmapFailed(buf)
             THEN [st1 EXCEPT !.ok = FALSE]
             ELSE [st1 EXCEPT !.cache = Insert(@, area, AsUsize(buf)),
                              !.rets = Returned(@, area, AsUsize(buf))]

\* The outcomes of calling get_map(..)? for each area in turn: `?` returns
\* at the first Err.
RECURSIVE Premap(_, _, _, _)
Premap(st, tab, fd, areas) ==
    IF areas = << >> \/ ~st.ok THEN {st}
    ELSE LET area == Head(areas)
             answers == IF area \in DOMAIN st.cache THEN {0}
                        ELSE RingMmapResults(st.vm, area.length)
         IN  UNION {Premap(RegionCall(st, tab, fd, area, buf), tab, fd, Tail(areas)) :
                        buf \in answers}

\* CapacityFor without `if min_capacity == 0 { return Err(..) }`: pages - 1
\* wraps to usize::MAX and `capacity += 1` wraps to 0.
CapacityForNoZeroCheck(min_capacity) ==
    IF min_capacity = 0
    THEN [ok |-> TRUE, err |-> "none", capacity |-> 0]
    ELSE LET capacity == RoundCapacity(min_capacity) IN
         IF capacity > U32Max
         THEN [ok |-> FALSE, err |-> "TryFromIntError", capacity |-> capacity]
         ELSE [ok |-> TRUE, err |-> "none", capacity |-> capacity]

\* with_capacity up to its first kernel call: zero is rejected, the request
\* is rounded, and `capacity.try_into()?` must fit the result into a u32.
CapacityFor(min_capacity) ==
    IF min_capacity = 0
    THEN [ok |-> FALSE, err |-> "InvalidArgument", capacity |-> 0]
    ELSE LET capacity == RoundCapacity(min_capacity) IN
         IF capacity > U32Max
         THEN [ok |-> FALSE, err |-> "TryFromIntError", capacity |-> capacity]
         ELSE [ok |-> TRUE, err |-> "none", capacity |-> capacity]

\* with_capacity returning Err before a Map exists.
WithCapacityErr(min_capacity, raw, err) ==
    /\ last' = LastErr("RingBuffer::with_capacity", min_capacity, raw, err)
    /\ UNCHANGED <<kernelVars, mapVars, misuse, ringVars>>

\* RingBuffer::with_capacity(min_capacity: u32)
with_capacity(min_capacity) ==
    LET checked == CapacityFor(min_capacity)
        capacity == checked.capacity
    IN
    /\ rb_state = "none" /\ map_state = "none"
    /\ IF ~checked.ok
       THEN WithCapacityErr(min_capacity, 0, checked.err)
       ELSE \E r \in FdCallResults(fdtab) :
            IF r < 0
            THEN WithCapacityErr(min_capacity, r, "SystemError")
            ELSE LET tab == [fdtab EXCEPT ![r] = FdRec("map", 0, 0 - 1)]
                     st0 == MapSt(vmas, EmptyMap, mmap_calls, ret_addrs, {})
                 IN
                 \E st \in Premap(st0, tab, r, RingAreas(capacity)) :
                    /\ map_fd' = r
                    /\ mapped_areas' = st.cache
                    /\ mmap_calls' = st.calls
                    /\ ret_addrs' = st.rets
                    /\ misuse' = misuse \cup st.bad
                    /\ UNCHANGED meta
                    /\ IF st.ok
                       THEN /\ fdtab' = tab
                            /\ vmas' = st.vm
                            /\ map_state' = "live"
                            /\ rb_state' = "live"
                            /\ rb_capacity' = capacity
                            /\ consumer_pos' = 0
                            /\ producer_pos' = 0
                            /\ slice' = NoSlice
                            /\ last' = Last("RingBuffer::with_capacity", TRUE,
                                            min_capacity, r, capacity, {})
                            /\ UNCHANGED <<munmap_log, map_closes>>
                       ELSE \* the Map is dropped on the way out
                            /\ fdtab' = KClose(tab, r)
                            /\ map_closes' = map_closes + 1
                            /\ munmap_log' = MunmapCalls(st.cache)
                            /\ vmas' = MunmapAll(st.vm, MunmapCalls(st.cache))
                            /\ map_state' = "dropped"
                            /\ last' = LastErr("RingBuffer::with_capacity",
                                               min_capacity, r, "SystemError")
                            /\ UNCHANGED <<rb_state, rb_capacity, consumer_pos,
                                           producer_pos, slice>>
    /\ UNCHANGED <<prog, thrVars, probeVars>>

\* RingBuffer::get_capacity
get_capacity ==
    /\ rb_state = "live"
    /\ last' = Last("get_capacity", TRUE, 0, 0, rb_capacity, {})
    /\ UNCHANGED <<kernelVars, prog, mapVars, thrVars, probeVars, misuse, ringVars>>

\* Dropping a RingBuffer drops its Map.
RingDrop ==
    /\ rb_state = "live"
    /\ MapDrop
    /\ rb_state' = "dropped"
    /\ slice' = NoSlice
    /\ UNCHANGED <<rb_capacity, consumer_pos, producer_pos, meta>>

\* An address that a successful mmap returned and munmap has not released.
Mapped(vm, addr) == addr % PAGE_SIZE = 0 /\ (addr \div PAGE_SIZE) \in vm

\* The Map as a call of get_map finds it, and as the call leaves it.
CurrentMap == MapSt(vmas, mapped_areas, mmap_calls, ret_addrs, {})

MapBecomes(st) ==
    /\ vmas' = st.vm
    /\ mapped_areas' = st.cache
    /\ mmap_calls' = st.calls
    /\ ret_addrs' = st.rets
    /\ misuse' = misuse \cup st.bad

\* NativeEndian::read_u32(&buf[0..4]) of a position the kernel keeps as an
\* unsigned long: its low 32 bits.
ReadU32(pos) == pos % (2 ^ U32Bits)

\* NativeEndian::write_u32(&mut buf[0..4], v as u32): the low 32 bits of the
\* kernel's word are replaced.
WriteU32(pos, v) == (pos \div (2 ^ U32Bits)) * (2 ^ U32Bits) + (v % (2 ^ U32Bits))

\* The first word of the page of the ring at `offset`, which every mapping
\* of that offset shows: the consumer position, the producer position.
PageWord(offset) ==
    CASE offset = CONSUMER_OFFSET -> consumer_pos
      [] offset = PRODUCER_OFFSET -> producer_pos
      [] OTHER -> 0

\* What get_meta returns when both position pages can be read: the first
\* four bytes of the slices for ConsumerArea and ProducerArea.
get_meta ==
    RingMeta(ReadU32(PageWord(ConsumerArea.offset)),
             ReadU32(PageWord(ProducerArea.offset)), rb_capacity)

\* get_meta: both get_map calls returned Ok (else `expect` panics) and the
\* slices they returned can be read (else the read faults).
MetaRead(st) ==
    /\ st.ok
    /\ Mapped(st.vm, st.cache[ConsumerArea])
    /\ Mapped(st.vm, st.cache[ProducerArea])

\* A panic or a fault inside a RingBuffer call ends the process.
RingCrash(op, arg) ==
    /\ rb_state' = "crashed"
    /\ last' = LastErr(op, arg, 0, "crash")
    /\ slice' = NoSlice
    /\ UNCHANGED <<rb_capacity, consumer_pos, producer_pos, meta>>

\* RingBuffer::len
len ==
    /\ rb_state = "live"
    /\ \E st \in Premap(CurrentMap, fdtab, map_fd, <<ConsumerArea, ProducerArea>>) :
        /\ MapBecomes(st)
        /\ IF ~MetaRead(st) THEN RingCrash("len", 0)
           ELSE /\ last' = Last("len", TRUE, 0, get_meta, RingMeta_len(get_meta), {})
                /\ UNCHANGED ringVars
    /\ UNCHANGED <<fdtab, prog, map_state, map_fd, munmap_log, map_closes, thrVars, probeVars>>

\* RingBuffer::is_empty
is_empty ==
    /\ rb_state = "live"
    /\ \E st \in Premap(CurrentMap, fdtab, map_fd, <<ConsumerArea, ProducerArea>>) :
        /\ MapBecomes(st)
        /\ IF ~MetaRead(st) THEN RingCrash("is_empty", 0)
           ELSE /\ last' = Last("is_empty", TRUE, 0, get_meta, RingMeta_is_empty(get_meta), {})
                /\ UNCHANGED ringVars
    /\ UNCHANGED <<fdtab, prog, map_state, map_fd, munmap_log, map_closes, thrVars, probeVars>>

\* RingBuffer::get_buf: `&buf[cons_pos..cons_pos + len]` of the slice that
\* get_map returns for the data area; an index past the slice panics.
\* arg: cons_pos; raw: the length of the slice of the data area; ret:
\* cons_pos + len.
get_buf ==
    /\ rb_state = "live"
    /\ \E st \in Premap(CurrentMap, fdtab, map_fd,
                        <<ConsumerArea, ProducerArea, BufferArea(rb_capacity)>>) :
        LET cons_pos == get_cons_pos(get_meta)
            length == RingMeta_len(get_meta)
            buf_len == BufferArea(rb_capacity).length
        IN
        /\ MapBecomes(st)
        /\ IF ~MetaRead(st) THEN RingCrash("get_buf", 0)
           ELSE IF cons_pos + length > buf_len
           THEN /\ rb_state' = "crashed"
                /\ last' = LastErr("get_buf", cons_pos, buf_len, "out of range")
                /\ slice' = NoSlice
                /\ UNCHANGED <<rb_capacity, consumer_pos, producer_pos, meta>>
           ELSE /\ last' = Last("get_buf", TRUE, cons_pos, buf_len, cons_pos + length, {})
                /\ slice' = [held |-> TRUE, start |-> cons_pos, end |-> cons_pos + length]
                /\ UNCHANGED <<rb_state, rb_capacity, consumer_pos, producer_pos, meta>>
    /\ UNCHANGED <<fdtab, prog, map_state, map_fd, munmap_log, map_closes, thrVars, probeVars>>

\* The caller reads the bytes of the slice get_buf returned, some time after
\* get_buf read the positions.  arg: where the slice starts; raw: the bytes
\* between the two positions now; ret: the length of the slice.
ReadSlice ==
    /\ rb_state = "live"
    /\ slice.held
    /\ IF ~Mapped(vmas, mapped_areas[BufferArea(rb_capacity)])
       THEN RingCrash("read slice", slice.start)
       ELSE /\ last' = Last("read slice", TRUE, slice.start,
                            RingMeta_len(get_meta), slice.end - slice.start, {})
            /\ UNCHANGED ringVars
    /\ UNCHANGED <<kernelVars, prog, mapVars, thrVars, probeVars, misuse>>

\* consume taking `&self`: a slice that get_buf returned stays borrowed
\* across the call.
consume_shared(size) ==
    /\ rb_state = "live"
    /\ \E st \in Premap(CurrentMap, fdtab, map_fd,
                        <<ConsumerArea, ProducerArea, ConsumerAreaMut>>) :
        LET new_pos == RingMeta_consume(get_meta, size).cons_pos IN
        /\ MapBecomes(st)
        /\ IF ~MetaRead(st) \/ ~Mapped(st.vm, st.cache[ConsumerAreaMut])
           THEN RingCrash("consume", size)
           ELSE /\ consumer_pos' =
                    IF ConsumerAreaMut.flags = FlagShared
                    THEN WriteU32(consumer_pos, new_pos)
                    ELSE consumer_pos
                /\ last' = Last("consume", TRUE, size, get_meta, new_pos, {})
                /\ UNCHANGED <<rb_state, rb_capacity, producer_pos, meta, slice>>
    /\ UNCHANGED <<fdtab, prog, map_state, map_fd, munmap_log, map_closes, thrVars, probeVars>>

\* consume writing through a private (copy-on-write) mapping of the
\* consumer page.
consume_private(size) ==
    /\ rb_state = "live"
    /\ \E st \in Premap(CurrentMap, fdtab, map_fd,
                        <<ConsumerArea, ProducerArea, ConsumerAreaMut>>) :
        LET new_pos == RingMeta_consume(get_meta, size).cons_pos
            cons_buf == [ConsumerAreaMut EXCEPT !.flags = 2]
        IN
        /\ MapBecomes(st)
        /\ IF ~MetaRead(st) \/ ~Mapped(st.vm, st.cache[ConsumerAreaMut])
           THEN RingCrash("consume", size)
           ELSE /\ consumer_pos' =
                    IF cons_buf.flags = FlagShared /\ cons_buf.offset = CONSUMER_OFFSET
                    THEN WriteU32(consumer_pos, new_pos)
                    ELSE consumer_pos
                /\ last' = Last("consume", TRUE, size, get_meta, new_pos, {})
                /\ slice' = NoSlice
                /\ UNCHANGED <<rb_state, rb_capacity, producer_pos, meta>>
    /\ UNCHANGED <<fdtab, prog, map_state, map_fd, munmap_log, map_closes, thrVars, probeVars>>

\* RingBuffer::consume(size): arg: size; raw: what get_meta returned; ret:
\* the position written.  consume takes `&mut self`, so the borrow of a slice
\* that get_buf returned has ended when it is called.  The write goes to the
\* slice for ConsumerAreaMut; it reaches the page of the ring, and with it
\* every other mapping of that page, when that area is mapped shared.
consume(size) ==
    /\ rb_state = "live"
    /\ \E st \in Premap(CurrentMap, fdtab, map_fd,
                        <<ConsumerArea, ProducerArea, ConsumerAreaMut>>) :
        LET new_pos == RingMeta_consume(get_meta, size).cons_pos
            cons_buf == ConsumerAreaMut
        IN
        /\ MapBecomes(st)
        /\ IF ~MetaRead(st) \/ ~Mapped(st.vm, st.cache[ConsumerAreaMut])
           THEN RingCrash("consume", size)
           ELSE /\ consumer_pos' =
                    IF cons_buf.flags = FlagShared /\ cons_buf.offset = CONSUMER_OFFSET
                    THEN WriteU32(consumer_pos, new_pos)
                    ELSE consumer_pos
                /\ last' = Last("consume", TRUE, size, get_meta, new_pos, {})
                /\ slice' = NoSlice
                /\ UNCHANGED <<rb_state, rb_capacity, producer_pos, meta>>
    /\ UNCHANGED <<fdtab, prog, map_state, map_fd, munmap_log, map_closes, thrVars, probeVars>>

\* The kernel producer reserves a record of n bytes (header included, a
\* multiple of 8): it advances its position unless that would put it more
\* than capacity - 1 ahead of the consumer position it reads.
Produce(n) ==
    LET new_prod_pos == producer_pos + n IN
    /\ rb_state = "live"
    /\ new_prod_pos >= consumer_pos
    /\ new_prod_pos - consumer_pos <= rb_capacity - 1
    /\ producer_pos' = new_prod_pos
    /\ last' = Last("produce", TRUE, n, 0, new_prod_pos, {})
    /\ UNCHANGED <<kernelVars, prog, mapVars, thrVars, probeVars, misuse,
                   rb_state, rb_capacity, consumer_pos, meta, slice>>

(***************************************************************************)
(* call_bpf and bpf(): one attribute record handed to the kernel.          *)
(***************************************************************************)
BPF_ATTR_SIZE == 120

\* call_bpf calling bpf() again when the result is negative.
call_bpf_retry(attr, r) ==
    LET size == Len(attr)
        buf == [i \in 1 .. BPF_ATTR_SIZE |-> IF i <= size THEN attr[i] ELSE 0]
        syscall == [buf |-> buf, size |-> BPF_ATTR_SIZE]
    IN
    /\ last' = IF size > BPF_ATTR_SIZE
               THEN LastErr("call_bpf", attr, 0, "panic")
               ELSE IF r < 0
               THEN [LastErr("call_bpf", attr, r, "SystemError") EXCEPT
                        !.ret = r, !.calls = <<syscall, syscall>>]
               ELSE [Last("call_bpf", TRUE, attr, r, r % (2 ^ U32Bits), {}) EXCEPT
                        !.calls = <<syscall>>]
    /\ UNCHANGED <<kernelVars, prog, mapVars, thrVars, probeVars, misuse>>

\* call_bpf with bpf() handing the kernel the record itself and its size.
call_bpf_unpadded(attr, r) ==
    LET size == Len(attr)
        syscall == [buf |-> attr, size |-> size]
    IN
    /\ last' = IF size > BPF_ATTR_SIZE
               THEN LastErr("call_bpf", attr, 0, "panic")
               ELSE IF r < 0
               THEN [LastErr("call_bpf", attr, r, "SystemError") EXCEPT
                        !.ret = r, !.calls = <<syscall>>]
               ELSE [Last("call_bpf", TRUE, attr, r, r % (2 ^ U32Bits), {}) EXCEPT
                        !.calls = <<syscall>>]
    /\ UNCHANGED <<kernelVars, prog, mapVars, thrVars, probeVars, misuse>>

\* attr.call_bpf(cmd), attr the bytes of the record (size_of::<T>() of
\* them), r the kernel's answer.  bpf() panics when size > BPF_ATTR_SIZE;
\* else it copies the record to the front of a zeroed buffer of
\* BPF_ATTR_SIZE bytes and makes the system call once with the buffer and
\* BPF_ATTR_SIZE.  call_bpf returns Err(SystemError(r)) when r < 0 and
\* Ok(r as u32) otherwise.  calls: the system calls made; ret: the value
\* inside Ok or SystemError.
call_bpf(attr, r) ==
    LET size == Len(attr)
        buf == [i \in 1 .. BPF_ATTR_SIZE |-> IF i <= size THEN attr[i] ELSE 0]
        syscall == [buf |-> buf, size |-> BPF_ATTR_SIZE]
    IN
    /\ last' = IF size > BPF_ATTR_SIZE
               THEN LastErr("call_bpf", attr, 0, "panic")
               ELSE IF r < 0
               THEN [LastErr("call_bpf", attr, r, "SystemError") EXCEPT
                        !.ret = r, !.calls = <<syscall>>]
               ELSE [Last("call_bpf", TRUE, attr, r, r % (2 ^ U32Bits), {}) EXCEPT
                        !.calls = <<syscall>>]
    /\ UNCHANGED <<kernelVars, prog, mapVars, thrVars, probeVars, misuse>>

(***************************************************************************)
(* Collections: Array, HashMap and Queue, each a Map whose element calls   *)
(* the kernel answers according to the type of the map.                    *)
(***************************************************************************)
\* bpf(cmd, MapOperationAttr { map_fd, key, val, flags }) on the map object
\* m: r is the result of the system call, val what the kernel stored
\* through attr.val, elems the contents afterwards.  flags: 0 Any, 1
\* NoExist, 2 Exist.  The errors are -ENOENT (2), -E2BIG (7), -EEXIST (17),
\* -EINVAL (22) and -ENOTSUPP (524).  ukey is attr.key, the address the
\* kernel reads the key from, and key what is stored there: a map without
\* keys takes only a null address (-EINVAL otherwise), a map with keys
\* cannot read one from the null address (-EFAULT, 14).
bpf_map(cmd, m, ukey, key, val, flags) ==
    LET e == m.elems
        Res(r, v, el) == [r |-> r, val |-> v, elems |-> el]
        Fail(r) == Res(r, 0, e)
        Array ==
            CASE cmd = "MapLookupElem" ->
                    IF key >= m.max_entries THEN Fail(0 - 2) ELSE Res(0, e[key], e)
              [] cmd = "MapUpdateElem" ->
                    IF key >= m.max_entries THEN Fail(0 - 7)
                    ELSE IF flags = 1 THEN Fail(0 - 17)
                    ELSE Res(0, 0, [e EXCEPT ![key] = val])
              [] cmd = "MapDeleteElem" -> Fail(EINVAL)
              [] OTHER -> Fail(0 - 524)
        Hash ==
            CASE cmd = "MapLookupElem" ->
                    IF key \in DOMAIN e THEN Res(0, e[key], e) ELSE Fail(0 - 2)
              [] cmd = "MapUpdateElem" ->
                    IF key \in DOMAIN e
                    THEN IF flags = 1 THEN Fail(0 - 17) ELSE Res(0, 0, Insert(e, key, val))
                    ELSE IF flags = 2 THEN Fail(0 - 2)
                    ELSE IF Cardinality(DOMAIN e) >= m.max_entries THEN Fail(0 - 7)
                    ELSE Res(0, 0, Insert(e, key, val))
              [] cmd = "MapDeleteElem" ->
                    IF key \in DOMAIN e THEN Res(0, 0, Remove(e, key)) ELSE Fail(0 - 2)
              [] OTHER ->
                    IF key \in DOMAIN e THEN Res(0, e[key], Remove(e, key)) ELSE Fail(0 - 2)
        Queue ==
            CASE cmd = "MapLookupElem" ->
                    IF e = << >> THEN Fail(0 - 2) ELSE Res(0, Head(e), e)
              [] cmd = "MapUpdateElem" ->
                    IF flags = 1 THEN Fail(EINVAL)
                    ELSE IF Len(e) < m.max_entries THEN Res(0, 0, Append(e, val))
                    ELSE IF flags = 2 THEN Res(0, 0, Append(Tail(e), val))
                    ELSE Fail(0 - 7)
              [] cmd = "MapDeleteElem" -> Fail(EINVAL)
              [] OTHER ->
                    IF e = << >> THEN Fail(0 - 2) ELSE Res(0, Head(e), Tail(e))
    IN  CASE m.key_size = 0 /\ ukey # 0 -> Fail(EINVAL)
          [] m.key_size # 0 /\ ukey = 0 -> Fail(0 - 14)
          [] m.map_type = "Array" -> Array
          [] m.map_type = "Hash" -> Hash
          [] OTHER -> Queue

\* Array / HashMap / Queue ::with_capacity(entries):
\* Map::<K, V>::with_capacity(map_type, entries), K and V the sizes of the
\* two types.  MapAttr takes `size_of::<K>() as u32` and `size_of::<V>() as
\* u32`, the low 32 bits.  The kernel refuses a map of no entries, a value
\* of no bytes, an array whose key is not 4 bytes, a queue with a key and a
\* hash without one; it zeroes the elements of an array and creates a hash
\* and a queue empty.
CollectionCreate(map_type, K, V, entries) ==
    LET attr == [map_type |-> map_type, key_size |-> K % (2 ^ U32Bits),
                 value_size |-> V % (2 ^ U32Bits), max_entries |-> entries]
        refused == \/ attr.max_entries = 0
                   \/ attr.value_size = 0
                   \/ attr.map_type = "Array" /\ attr.key_size # 4
                   \/ attr.map_type = "Queue" /\ attr.key_size # 0
                   \/ attr.map_type = "Hash" /\ attr.key_size = 0
    IN
    /\ MapCreate
    /\ refused => ~last'.ok
    /\ kmap' = IF ~last'.ok THEN kmap
               ELSE [map_type |-> map_type, K |-> K, V |-> V,
                     key_size |-> attr.key_size, value_size |-> attr.value_size,
                     max_entries |-> entries,
                     elems |-> CASE map_type = "Array" -> [i \in 0 .. (entries - 1) |-> 0]
                                 [] map_type = "Hash" -> EmptyMap
                                 [] OTHER -> << >>]

\* Addresses at which the caller of an element operation holds its key.
KeyAddrs == {4096, 4104}

\* The element operations passing the address of the key whatever the size
\* of K.
MapOperation_addr(op, cmd, key, val, flags) ==
    \E addr \in KeyAddrs :
        LET key_ptr == addr
            k == bpf_map(cmd, kmap, key_ptr, key, val, flags)
            attr == [cmd |-> cmd, key |-> key_ptr, key_addr |-> addr]
        IN
        /\ map_state = "live"
        /\ kmap' = [kmap EXCEPT !.elems = k.elems]
        /\ last' = IF k.r < 0
                   THEN [LastErr(op, <<key, val>>, k.r, "SystemError") EXCEPT
                            !.calls = <<attr>>]
                   ELSE [Last(op, TRUE, <<key, val>>, k.r, k.val, {}) EXCEPT
                            !.calls = <<attr>>]
        /\ UNCHANGED <<kernelVars, prog, mapVars, thrVars, probeVars, misuse>>

\* Map::get / set / del / get_and_del(key): key_ptr is 0 when
\* size_of::<K>() == 0 and `key as *const K as u64`, the address addr of
\* the caller's key, otherwise; then attr.call_bpf(cmd)? of the
\* MapOperationAttr, Err(SystemError(r)) when the result is negative.
\* arg: <<key, val>>; raw: r; ret: the value read; calls: the command, the
\* key field of the record and the address of the caller's key.
MapOperation(op, cmd, key, val, flags) ==
    \E addr \in KeyAddrs :
        LET key_ptr == IF kmap.K = 0 THEN 0 ELSE addr
            k == bpf_map(cmd, kmap, key_ptr, key, val, flags)
            attr == [cmd |-> cmd, key |-> key_ptr, key_addr |-> addr]
        IN
        /\ map_state = "live"
        /\ kmap' = [kmap EXCEPT !.elems = k.elems]
        /\ last' = IF k.r < 0
                   THEN [LastErr(op, <<key, val>>, k.r, "SystemError") EXCEPT
                            !.calls = <<attr>>]
                   ELSE [Last(op, TRUE, <<key, val>>, k.r, k.val, {}) EXCEPT
                            !.calls = <<attr>>]
        /\ UNCHANGED <<kernelVars, prog, mapVars, thrVars, probeVars, misuse>>

\* Map::get taking the element out, as get_and_del does.
get_consuming(key) == MapOperation("Map::get", "MapLookupAndDeleteElem", key, 0, 0)

\* Map::get: Array::get, HashMap::get, Queue::front
get(key) == MapOperation("Map::get", "MapLookupElem", key, 0, 0)

\* Map::set with flags NoExist.
set_noexist(key, val) == MapOperation("Map::set", "MapUpdateElem", key, val, 1)

\* Map::set with flags Exist.
set_exist(key, val) == MapOperation("Map::set", "MapUpdateElem", key, val, 2)

\* Map::set, flags MapLookupFlags::Any: Array::set, HashMap::insert, Queue::push
set(key, val) == MapOperation("Map::set", "MapUpdateElem", key, val, 0)

\* Map::del looking the key up and leaving it.
del_lookup(key) == MapOperation("Map::del", "MapLookupElem", key, 0, 0)

\* Map::del: HashMap::remove
del(key) == MapOperation("Map::del", "MapDeleteElem", key, 0, 0)

\* Map::get_and_del leaving the element in, as get does.
get_and_del_keep(key) == MapOperation("Map::get_and_del", "MapLookupElem", key, 0, 0)

\* Map::get_and_del: Queue::pop
get_and_del(key) == MapOperation("Map::get_and_del", "MapLookupAndDeleteElem", key, 0, 0)

(***************************************************************************)
(* Specifications                                                          *)
(***************************************************************************)
Keep(A) == A /\ UNCHANGED <<steps, consumed, ringVars, diag, kmap, fifo>>

Counted(A) ==
    /\ A
    /\ steps < MaxSteps /\ steps' = steps + 1
    /\ UNCHANGED <<consumed, ringVars, diag, kmap, fifo>>

Next ==
    \/ Keep(ProgramCreate)
    \/ \E i \in ProgIds : Keep(ProgramDrop(i))
    \/ \E kind \in AttachKinds : Keep(ProbeCreate(kind))
    \/ \E i \in ProgIds : Keep(attach(i))
    \/ \E i \in ProgIds : Keep(detach(i))
    \/ Keep(ProbeDrop)

Spec == Init /\ [][Next]_vars

MapNext ==
    \/ Keep(MapCreate)
    \/ \E in \in RegionInputs : Keep(get_map(in.size, in.offset, in.count))
    \/ \E in \in RegionInputs : Keep(get_map_mut(in.size, in.offset, in.count))
    \/ Keep(MapDrop)

MapSpec == Init /\ [][MapNext]_vars

\* Threads call get_map on a shared Map (&self); drop needs the Map to itself.
ConcInputs == {in \in RegionInputs : in.offset = 0}

ConcNext ==
    \/ Keep(MapCreate)
    \/ \E t \in Threads, in \in ConcInputs : Keep(T_call(t, in.size, in.offset, in.count))
    \/ \E t \in Threads : Keep(T_lock(t))
    \/ \E t \in Threads : Keep(T_lookup(t))
    \/ \E t \in Threads : Keep(T_mmap(t))
    \/ \E t \in Threads : Keep(T_insert(t))
    \/ \E t \in Threads : Keep(T_insert_panic(t))
    \/ \E in \in ConcInputs : Keep(get_map_mut(in.size, in.offset, in.count))
    \/ Keep(MapDrop)

ConcSpec == Init /\ [][ConcNext]_vars

\* All three owners of descriptors in one process.
LifeInputs == {in \in RegionInputs : in.size = 4 /\ in.offset = 0}

LifeNext ==
    \/ Counted(ProgramCreate)
    \/ \E i \in ProgIds : Counted(ProgramDrop(i))
    \/ \E kind \in AttachKinds : Counted(ProbeCreate(kind))
    \/ \E i \in ProgIds : Counted(attach(i))
    \/ \E i \in ProgIds : Counted(detach(i))
    \/ Counted(ProbeDrop)
    \/ Counted(MapCreate)
    \/ \E in \in LifeInputs : Counted(get_map(in.size, in.offset, in.count))
    \/ \E in \in LifeInputs : Counted(get_map_mut(in.size, in.offset, in.count))
    \/ Counted(MapDrop)

LifeSpec == Init /\ [][LifeNext]_vars

\* Programs loaded with and without a sink for the kernel's log.
LoadNext ==
    \/ \E log_out \in BOOLEAN, buf \in LogBuffers :
        create(log_out, buf) /\ UNCHANGED <<steps, consumed, ringVars, kmap, fifo>>
    \/ \E i \in ProgIds : Keep(ProgramDrop(i))

LoadSpec == Init /\ [][LoadNext]_vars

\* A collection of each type, with the values a Queue took (push returned
\* Ok) and gave (pop returned Ok) recorded, up to MaxPushes pushes.  Keys
\* are the indices of an array and one past them; a Queue's key is Void.
Logged(A) ==
    /\ A
    /\ UNCHANGED <<steps, consumed, ringVars, diag>>
    /\ fifo' = IF kmap'.map_type = "Queue" /\ last'.ok /\ last'.op = "Map::set"
               THEN [fifo EXCEPT !.pushed = Append(@, last'.arg[2])]
               ELSE IF kmap'.map_type = "Queue" /\ last'.ok /\ last'.op = "Map::get_and_del"
               THEN [fifo EXCEPT !.popped = Append(@, last'.ret)]
               ELSE fifo
    /\ Len(fifo'.pushed) <= MaxPushes

CollNext ==
    LET Keys == IF kmap.map_type = "Queue" THEN {0} ELSE 0 .. MaxEntries
        Vals == 0 .. 2
        Types == {"Array", "Hash", "Queue"}
        KeySize(map_type) == IF map_type = "Queue" THEN 0 ELSE 4
        Huge == 2 ^ U32Bits
        \* u32 keys and values, and types of 2^32 bytes and more
        Creates ==
            {<<t, KeySize(t), 4, n>> : t \in Types, n \in 0 .. MaxEntries}
            \cup {<<t, KeySize(t), V, 1>> : t \in Types, V \in {Huge, Huge + 4}}
            \cup {<<"Hash", K, 4, 1>> : K \in {Huge, Huge + 4}}
    IN
    \/ \E c \in Creates : Logged(CollectionCreate(c[1], c[2], c[3], c[4]))
    \/ \E key \in Keys : Logged(get(key))
    \/ \E key \in Keys, val \in Vals : Logged(set(key, val))
    \/ \E key \in Keys : kmap.map_type = "Hash" /\ Logged(del(key))
    \/ kmap.map_type = "Queue" /\ Logged(get_and_del(0))
    \/ Logged(MapDrop /\ UNCHANGED kmap)

CollSpec == Init /\ [][CollNext]_vars

\* Records of every size up to one byte more than the buffer of bpf(),
\* and answers of the kernel: errors, 0, a descriptor, the largest int.
BpfNext ==
    LET Records == {[i \in 1 .. size |-> b] : size \in 0 .. (BPF_ATTR_SIZE + 1),
                                              b \in {1, 255}}
        Answers == {EPERM, EINVAL, 0, 3, 2 ^ (U32Bits - 1) - 1}
    IN  \E attr \in Records, r \in Answers : Keep(call_bpf(attr, r))

BpfSpec == Init /\ [][BpfNext]_vars

Step(A) == A /\ UNCHANGED <<steps, consumed, diag, kmap, fifo>>

\* Requests for a RingBuffer: zero, the sizes of the doc-test, the sizes
\* around a whole number of pages, and the largest u32.
DocTestSizes == {1, 4095, 4096, 8191, 8192, 16535, 16536, 40000}

CapInputs ==
    {0, U32Max} \cup DocTestSizes \cup
    {p * PAGE_SIZE + d : p \in {1, 2, 3, 4, 5, 8, 16, 32}, d \in {0 - 1, 0, 1}}

CapNext ==
    \/ \E m \in CapInputs : Step(with_capacity(m))
    \/ Step(get_capacity)
    \/ Step(RingDrop)

CapSpec == Init /\ [][CapNext]_vars

\* RingMeta values: positions on both sides of each other and of the
\* capacity.  len() subtracts cons_pos from capacity when cons_pos >
\* prod_pos, so cons_pos <= capacity there.
MetaCapacities == {PAGE_SIZE, 2 * PAGE_SIZE}

MetaPositions(capacity) == {0, 1, capacity - 1, capacity, capacity + 1, 2 * capacity - 1}

MetaInputs ==
    {m \in UNION {[cons_pos : MetaPositions(c), prod_pos : MetaPositions(c), capacity : {c}] :
                    c \in MetaCapacities} :
        m.cons_pos > m.prod_pos => m.cons_pos <= m.capacity}

MetaSizes == {0, PAGE_SIZE \div 2, 4 * PAGE_SIZE}

MetaNext ==
    \/ \E m \in MetaInputs : Step(RingMetaNew(m.cons_pos, m.prod_pos, m.capacity))
    \/ Step(MetaLen)
    \/ Step(MetaIsEmpty)
    \/ \E size \in MetaSizes : Step(MetaConsume(size))

MetaSpec == Init /\ [][MetaNext]_vars

\* A RingBuffer of one page or of two, the kernel producing into it.
RingInputs == {1, PAGE_SIZE + 1}

RecordSizes(capacity) == {capacity \div 4, capacity - 8}

ConsumeSizes(capacity) == {0, capacity \div 4, 2 * capacity}

RingNext ==
    \/ \E m \in RingInputs : Step(with_capacity(m))
    \/ \E n \in RecordSizes(rb_capacity) : Step(Produce(n))
    \/ Step(len)
    \/ Step(is_empty)
    \/ Step(get_buf)
    \/ Step(ReadSlice)
    \/ \E size \in ConsumeSizes(rb_capacity) : Step(consume(size))
    \/ Step(RingDrop)

RingSpec == Init /\ [][RingNext]_vars

\* The same ring with the bytes consumed counted: a consume call that
\* returns advanced by min(size, len()).  The count stops at MaxLaps times
\* the capacity, where it stays.
Counting(capacity) == MaxLaps * capacity

Tallied(A) ==
    /\ A
    /\ UNCHANGED <<steps, diag, kmap, fifo>>
    /\ consumed' =
         IF last'.op = "RingBuffer::with_capacity" THEN 0
         ELSE IF last'.op = "consume" /\ last'.ok
         THEN Min({Counting(rb_capacity),
                   consumed + Min({last'.arg, RingMeta_len(last'.raw)})})
         ELSE consumed

TallyNext ==
    \/ \E m \in RingInputs : Tallied(with_capacity(m))
    \/ \E n \in RecordSizes(rb_capacity) : Tallied(Produce(n))
    \/ Tallied(len)
    \/ \E size \in ConsumeSizes(rb_capacity) : Tallied(consume(size))
    \/ Tallied(RingDrop)

TallySpec == Init /\ [][TallyNext]_vars

(***************************************************************************)
(* Properties                                                              *)
(***************************************************************************)
RegionOps == {"get_map", "get_map_mut"}

\* The usize reading of a negative isize, such as a system call's -errno.
IsNegativeAsUsize(u) == u >= 2 ^ (IsizeBits - 1)

\* C1: for one Map, mmap is issued at most once per MappedArea key, every
\* call with a key returns the base address the first call with that key
\* returned, and a cache entry, once made, is neither replaced nor removed
\* (the address returned for a key stays the cached one).
C1_CacheMapsOnce ==
    /\ \A a \in DOMAIN mmap_calls : mmap_calls[a] <= 1
    /\ \A a \in DOMAIN ret_addrs :
        /\ Cardinality(ret_addrs[a]) = 1
        /\ a \in DOMAIN mapped_areas
        /\ ret_addrs[a] = {mapped_areas[a]}
    /\ last.op \in RegionOps /\ last.ok => ret_addrs[last.arg] = {last.ret}

\* A call was served from the cache while two areas are cached.
C1_Witness ==
    /\ last.op \in RegionOps /\ last.ok /\ last.raw = 0
    /\ mmap_calls[last.arg] = 1
    /\ Cardinality(DOMAIN mapped_areas) = 2

\* C2: with threads calling get_map concurrently on one Map, the lookup,
\* the mmap and the insert of a call happen with the mutex held by the
\* caller, at most one mmap is issued per key, exactly one once a caller
\* has returned for that key, and all callers get the same base address.
C2_ConcurrentMapsOnce ==
    /\ \A t \in Threads : thr[t].pc \in {"lookup", "mmap", "insert"} => lock = t
    /\ \A a \in DOMAIN mmap_calls : mmap_calls[a] <= 1
    /\ \A a \in DOMAIN ret_addrs :
        /\ a \in DOMAIN mmap_calls /\ mmap_calls[a] = 1
        /\ Cardinality(ret_addrs[a]) = 1

\* A thread has mapped an area and not yet inserted it while another thread
\* waits for the mutex with the same area.
C2_Witness ==
    \E t, u \in Threads :
        /\ t # u
        /\ thr[t].pc = "insert"
        /\ thr[u].pc = "lock"
        /\ thr[u].area = thr[t].area

\* C3: when the mmap system call returns a negative error code, get_map /
\* get_map_mut return Err and add no cache entry; no error code is cached
\* as an address, returned as a slice's base or passed to munmap.
C3_FailedMmapNotCached ==
    /\ last.op \in RegionOps /\ last.raw < 0 =>
        ~last.ok /\ last.arg \notin DOMAIN mapped_areas
    /\ \A a \in DOMAIN mapped_areas : ~IsNegativeAsUsize(mapped_areas[a])
    /\ \A a \in DOMAIN ret_addrs : \A x \in ret_addrs[a] : ~IsNegativeAsUsize(x)
    /\ \A c \in Range(munmap_log) : ~IsNegativeAsUsize(c.addr)

\* C4: Drop for Map calls munmap once for every cache entry, with the
\* address returned when the entry was mapped and the entry's length, closes
\* the Map's descriptor once, and leaves none of the Map's mappings mapped.
C4_DropReleasesAll ==
    /\ map_state # "dropped" => map_closes = 0 /\ munmap_log = << >>
    /\ map_state = "dropped" =>
        /\ map_closes = 1
        /\ fdtab[map_fd].kind = "free"
        /\ \A m \in misuse : m[1] # <<"Map", 0>>
        /\ Len(munmap_log) = Cardinality(DOMAIN mapped_areas)
        /\ \A a \in DOMAIN mapped_areas :
            \E k \in DOMAIN munmap_log :
                /\ munmap_log[k].area = a
                /\ munmap_log[k].length = a.length
                /\ ret_addrs[a] = {munmap_log[k].addr}
        /\ vmas = {}

\* A Map was dropped with two mapped areas, one longer than a page.
C4_Witness ==
    /\ map_state = "dropped"
    /\ Len(munmap_log) = 2
    /\ \E k \in DOMAIN munmap_log :
        munmap_log[k].length > PAGE_SIZE /\ ~IsNegativeAsUsize(munmap_log[k].addr)

IsEvent(fd) == fdtab[fd].kind \in EventKinds

\* C5: no owner (Program, Map, Probe) closes a descriptor it has already
\* closed, and none passes a descriptor to a kernel call after closing it:
\* every kernel call on a descriptor is made while the caller owns it open.
C5_NoDoubleCloseNoUseAfterClose == misuse = {}

\* A Probe with recorded descriptors was dropped after a Map was dropped.
C5_Witness ==
    /\ last.op = "Probe::drop" /\ last.fds # {}
    /\ map_state = "dropped"

\* C6: every event descriptor opened by an attach call that failed is
\* closed by the time the Probe has been destroyed.
C6_FailedAttachReleased ==
    probe_state = "dropped" => \A fd \in Fds : ~(IsEvent(fd) /\ fdtab[fd].failed)

\* C7: in attach_probe every enable of a descriptor directly follows a
\* successful associate of the same descriptor, every successful associate
\* is followed by the enable of that descriptor, and no ioctl call is made
\* after one that failed.
C7_AssociateThenEnable ==
    last.op = "attach" =>
        LET log == last.calls IN
        /\ \A k \in DOMAIN log :
            log[k].call = "enable" => k > 1 /\ log[k - 1] = Ioctl("attach", log[k].fd, TRUE)
        /\ \A k \in DOMAIN log :
            log[k].call = "attach" /\ log[k].ok =>
                k < Len(log) /\ log[k + 1].call = "enable" /\ log[k + 1].fd = log[k].fd
        /\ \A k \in DOMAIN log : ~log[k].ok => k = Len(log)

\* An attach failed at the associate of its second descriptor.
C7_Witness ==
    /\ last.op = "attach" /\ ~last.ok
    /\ Len(last.calls) = 3
    /\ last.calls[3] = Ioctl("attach", last.calls[3].fd, FALSE)

\* C8: a successful attach records one raw-tracepoint descriptor on a
\* RawTracepoint probe, and on a KProbe/UProbe probe one perf event per
\* processor: NumCpus descriptors, the one at position c + 1 opened on cpu c.
C8_AttachRecords ==
    last.op = "attach" /\ last.ok =>
        /\ last.arg \in DOMAIN attach_fds
        /\ LET fds == attach_fds[last.arg] IN
           IF attach_info = "RawTracepoint"
           THEN Len(fds) = 1 /\ fdtab[fds[1]].kind = "rawtp"
           ELSE /\ Len(fds) = NumCpus
                /\ Cardinality(Range(fds)) = NumCpus
                /\ \A c \in Cpus : fdtab[fds[c + 1]].kind = "perf" /\ fdtab[fds[c + 1]].cpu = c

\* A KProbe or UProbe attach succeeded.
C8_Witness ==
    /\ last.op = "attach" /\ last.ok
    /\ attach_info \in {"KProbe", "UProbe"}
    /\ Len(attach_fds[last.arg]) = NumCpus

\* The open descriptors that successful attach calls opened for Program i.
OpenedFor(i) == {fd \in Fds : IsEvent(fd) /\ fdtab[fd].id = i /\ ~fdtab[fd].failed}

RecordedFor(i) ==
    IF prog[i].fd \in DOMAIN attach_fds THEN Range(attach_fds[prog[i].fd]) ELSE {}

\* C9: for every live program, the open event descriptors that attaching it
\* created are exactly the ones recorded under its key.
C9_AttachedOnce ==
    probe_state = "live" =>
        \A i \in ProgIds : prog[i].state = "live" => OpenedFor(i) = RecordedFor(i)

\* C10: detach closes every descriptor recorded for the program and removes
\* its entry; Drop for Probe closes every recorded descriptor; once the Probe
\* is destroyed no recorded descriptor is an open event descriptor.
C10_DetachAndDropClose ==
    /\ last.op = "detach" =>
        last.arg \notin DOMAIN attach_fds /\ \A fd \in last.fds : fdtab[fd].kind = "free"
    /\ last.op = "Probe::drop" => \A fd \in last.fds : fdtab[fd].kind = "free"
    /\ probe_state = "dropped" =>
        \A p \in DOMAIN attach_fds : \A fd \in Range(attach_fds[p]) : ~IsEvent(fd)

\* A detach closed one descriptor per processor.
C10_Witness ==
    /\ last.op = "detach"
    /\ Cardinality(last.fds) = NumCpus
    /\ NumCpus > 1

\* C11: detach of a program with no entry recorded under its descriptor
\* (never attached, or already detached) returns Ok, changes no descriptor
\* and leaves attach_fds as it was; and every detach leaves no entry under
\* the program's descriptor, so a second detach is such a call.
C11_DetachIdempotent ==
    [][last'.op = "detach" =>
        /\ last'.arg \notin DOMAIN attach_fds'
        /\ last'.arg \notin DOMAIN attach_fds =>
            /\ last'.ok
            /\ last'.fds = {}
            /\ fdtab' = fdtab
            /\ attach_fds' = attach_fds
            /\ probe_state' = probe_state /\ attach_info' = attach_info]_vars

\* A detach found nothing recorded while another program stayed attached.
C11_Witness ==
    /\ last.op = "detach" /\ last.ok /\ last.fds = {}
    /\ \E k \in DOMAIN attach_fds : \A fd \in Range(attach_fds[k]) : IsEvent(fd)

\* C12: a Probe holds entries of several programs at once: an attach or a
\* detach with one program's descriptor leaves every other recorded entry
\* as it was and its descriptors open and untouched, and a detach changes
\* no descriptor besides the ones recorded for its program.
C12_OtherProgramsUntouched ==
    [][last'.op \in {"attach", "detach"} =>
        /\ \A k \in DOMAIN attach_fds :
            k # last'.arg =>
                /\ k \in DOMAIN attach_fds' /\ attach_fds'[k] = attach_fds[k]
                /\ \A fd \in Range(attach_fds[k]) : IsEvent(fd) /\ fdtab'[fd] = fdtab[fd]
        /\ last'.op = "detach" =>
            \A fd \in Fds :
                fdtab'[fd] # fdtab[fd] =>
                    last'.arg \in DOMAIN attach_fds /\ fd \in Range(attach_fds[last'.arg])]_vars

\* A detach closed one program's descriptors while another program of the
\* same Probe stays attached.
C12_Witness ==
    /\ last.op = "detach" /\ last.fds # {}
    /\ \E k \in DOMAIN attach_fds :
        /\ attach_fds[k] # << >>
        /\ \A fd \in Range(attach_fds[k]) : IsEvent(fd)
    /\ \E i \in ProgIds : prog[i].state = "live" /\ prog[i].fd = last.arg

\* The page_size * 2^k that fit a u32.
PowerOfTwoPages == {PAGE_SIZE * (2 ^ k) : k \in 0 .. (U32Bits - 12)}

\* C13: when with_capacity(min_bytes) succeeds for min_bytes > 0, the
\* capacity of the RingBuffer is page_size * 2^k for some k >= 0, is at
\* least min_bytes, and no smaller page_size * 2^k is at least min_bytes;
\* get_capacity returns it.
C13_CapacityRounded ==
    /\ (last.op = "RingBuffer::with_capacity" /\ last.ok) =>
        /\ last.arg > 0
        /\ rb_capacity = last.ret
        /\ rb_capacity \in PowerOfTwoPages
        /\ rb_capacity >= last.arg
        /\ \A c \in PowerOfTwoPages : c >= last.arg => rb_capacity <= c
    /\ last.op = "get_capacity" => last.ret = rb_capacity /\ rb_capacity \in PowerOfTwoPages

\* A request of 2 pages and a byte got 4 pages.
C13_Witness ==
    /\ last.op = "RingBuffer::with_capacity" /\ last.ok
    /\ last.arg = 2 * PAGE_SIZE + 1
    /\ rb_capacity = 4 * PAGE_SIZE

\* The capacities the doc-test sizes are said to get.
SaidCapacity ==
    [m \in DocTestSizes |->
        CASE m \in {1, 4095, 4096} -> 4096
          [] m \in {8191, 8192} -> 8192
          [] m \in {16535, 16536} -> 16384
          [] OTHER -> 40960]

\* C14 as stated: with page size 4096 the minimum sizes 1, 4095, 4096, 8191,
\* 8192, 16535, 16536, 40000 get the capacities 4096, 4096, 4096, 8192,
\* 8192, 16384, 16384, 40960.
C14_SaidCapacities ==
    (last.op = "RingBuffer::with_capacity" /\ last.ok /\ last.arg \in DocTestSizes) =>
        rb_capacity = SaidCapacity[last.arg]

\* The capacities the rounding gives the doc-test sizes.
RoundedCapacity ==
    [m \in DocTestSizes |->
        CASE m \in {1, 4095, 4096} -> 4096
          [] m \in {8191, 8192} -> 8192
          [] m \in {16535, 16536} -> 32768
          [] OTHER -> 65536]

\* C14, amended: with page size 4096 the minimum sizes 1, 4095, 4096, 8191,
\* 8192, 16535, 16536, 40000 get the capacities 4096, 4096, 4096, 8192,
\* 8192, 32768, 32768, 65536.
C14_RoundedCapacities ==
    (last.op = "RingBuffer::with_capacity" /\ last.ok /\ last.arg \in DocTestSizes) =>
        rb_capacity = RoundedCapacity[last.arg]

\* A RingBuffer was made for 40000 bytes.
C14_Witness ==
    /\ last.op = "RingBuffer::with_capacity" /\ last.ok
    /\ last.arg = 40000
    /\ rb_state = "live"

\* C15: with_capacity(0) returns Err(InvalidArgument) and has made no kernel
\* call: no descriptor was created, no Map exists, nothing was mapped.
C15_ZeroRejected ==
    (last.op = "RingBuffer::with_capacity" /\ last.arg = 0) =>
        /\ ~last.ok /\ last.err = "InvalidArgument"
        /\ rb_state = "none" /\ map_state = "none"
        /\ \A fd \in Fds : fdtab[fd].kind = "free"
        /\ vmas = {} /\ mmap_calls = EmptyMap /\ mapped_areas = EmptyMap
        /\ map_closes = 0 /\ munmap_log = << >>

\* with_capacity(0) has returned.
C15_Witness ==
    /\ last.op = "RingBuffer::with_capacity" /\ last.arg = 0
    /\ ~last.ok

C17_GetBufInRange ==
    /\ last.err # "out of range"
    /\ rb_state = "live" =>
        /\ BufferArea(rb_capacity).length = 2 * rb_capacity
        /\ get_cons_pos(get_meta) < rb_capacity
        /\ get_cons_pos(get_meta) + RingMeta_len(get_meta) <= BufferArea(rb_capacity).length
    /\ (last.op = "get_buf" /\ last.ok) =>
        /\ last.raw = 2 * rb_capacity
        /\ last.arg <= last.ret /\ last.ret <= last.raw

\* get_buf returned a range that runs over the end of the first copy of
\* the data area.
C17_Witness ==
    /\ last.op = "get_buf" /\ last.ok
    /\ 0 < last.arg /\ last.arg < rb_capacity /\ last.ret > rb_capacity
    /\ Mapped(vmas, mapped_areas[BufferArea(rb_capacity)])

\* C18: right after consume(size), with nothing produced in between, len()
\* is smaller than it was before the call by min(size, len() before).
C18_ConsumeReducesLen ==
    (last.op = "consume" /\ last.ok) =>
        LET before == RingMeta_len(last.raw)
            taken == IF last.arg < before THEN last.arg ELSE before
        IN  RingMeta_len(get_meta) = before - taken

\* C19: right after consume(size) with size at least the bytes available,
\* the stored read position equals the stored write position, len() is 0
\* and is_empty() is true.
C19_ConsumeAllEmpties ==
    (last.op = "consume" /\ last.ok /\ last.arg >= RingMeta_len(last.raw)) =>
        /\ ReadU32(consumer_pos) = ReadU32(producer_pos)
        /\ RingMeta_len(get_meta) = 0
        /\ RingMeta_is_empty(get_meta)

\* C20: consume(n) on a RingBuffer with len() = 0 leaves the stored
\* consumer position as it was, not past the producer position.
C20_ConsumeEmptyNoOp ==
    (last.op = "consume" /\ last.ok /\ RingMeta_len(last.raw) = 0) =>
        /\ ReadU32(consumer_pos) = last.raw.cons_pos
        /\ consumer_pos <= producer_pos
        /\ producer_pos = last.raw.prod_pos

\* consume(n), n > 0, was called on a RingBuffer emptied after the kernel
\* had produced.
C20_Witness ==
    /\ last.op = "consume" /\ last.ok
    /\ RingMeta_len(last.raw) = 0
    /\ last.arg > 0 /\ producer_pos > 0

\* C21: in every state reached by the kernel producing (never over unread
\* data) and the user consuming, len() is at least 0 and at most the
\* capacity, len() is the number of bytes produced minus the number of
\* bytes consumed, and the consumer is never ahead of the producer.
C21_LenIsProducedMinusConsumed ==
    rb_state = "live" =>
        /\ 0 <= RingMeta_len(get_meta)
        /\ RingMeta_len(get_meta) <= rb_capacity
        /\ consumer_pos <= producer_pos
        /\ consumed < Counting(rb_capacity) =>
            /\ consumed <= producer_pos
            /\ RingMeta_len(get_meta) = producer_pos - consumed

\* C22: while the caller holds the slice get_buf returned, whatever the
\* kernel has produced since get_buf read the positions, the slice starts
\* at the consumer position and is no longer than the bytes readable now;
\* so it is when the caller reads the slice.
C22_SnapshotNeverTooLong ==
    /\ (rb_state = "live" /\ slice.held) =>
        /\ slice.start = get_cons_pos(get_meta)
        /\ slice.end - slice.start <= RingMeta_len(get_meta)
    /\ (last.op = "read slice" /\ last.ok) => last.ret <= last.raw

\* The caller read a slice of some bytes after the kernel had produced
\* more of them than get_buf saw.
C22_Witness ==
    /\ last.op = "read slice" /\ last.ok
    /\ 0 < last.ret /\ last.ret < last.raw

\* C23: once with_capacity has returned Ok the cache holds the four areas
\* (consumer page readable, consumer page writable, producer page, data
\* area at twice the capacity) and nothing else, every later call is served
\* from it without a further mmap, and no later call fails on a mapping.
C23_ServedFromCache ==
    rb_state \in {"live", "crashed"} =>
        /\ DOMAIN mapped_areas = Range(RingAreas(rb_capacity))
        /\ Cardinality(DOMAIN mapped_areas) = 4
        /\ DOMAIN mmap_calls = DOMAIN mapped_areas
        /\ \A area \in DOMAIN mmap_calls : mmap_calls[area] = 1
        /\ rb_state # "crashed"

\* C24: a RingBuffer into which the kernel has not produced has len() = 0,
\* is_empty() = true and a get_buf() of length 0.
C24_FreshRingEmpty ==
    /\ (rb_state = "live" /\ producer_pos = 0) =>
        /\ RingMeta_len(get_meta) = 0
        /\ RingMeta_is_empty(get_meta)
    /\ (rb_state = "live" /\ producer_pos = 0 /\ last.ok) =>
        /\ last.op = "len" => last.ret = 0
        /\ last.op = "is_empty" => last.ret = TRUE
        /\ last.op = "get_buf" => last.ret - last.arg = 0

\* get_buf returned on a RingBuffer into which nothing had been produced.
C24_Witness ==
    /\ rb_state = "live" /\ producer_pos = 0
    /\ last.op = "get_buf" /\ last.ok

\* C25: when Program::create is given a sink, the sink receives the contents
\* of the log buffer whether the load succeeded or failed, also when the
\* buffer holds bytes that are not well-formed text.
C25_LogAlwaysWritten ==
    (last.op = "Program::create" /\ diag.log_out) => diag.sink = diag.buf

\* C26: an Array of N entries has every entry zero when created; get(i)
\* with i < N returns the entry and changes nothing; set(i, v) with i < N
\* succeeds and changes entry i to v and no other entry; nothing else
\* changes an entry; get and set with i >= N fail and change nothing.
C26_ArraySetGet ==
    [][kmap'.map_type = "Array" =>
        LET N == kmap'.max_entries
            index == last'.arg[1]
            value == last'.arg[2]
        IN  CASE last'.op = "Map::with_capacity" ->
                    \A i \in 0 .. (N - 1) : kmap'.elems[i] = 0
              [] last'.op = "Map::get" ->
                    /\ kmap' = kmap
                    /\ IF index < N
                       THEN last'.ok /\ last'.ret = kmap.elems[index]
                       ELSE ~last'.ok
              [] last'.op = "Map::set" ->
                    IF index < N
                    THEN /\ last'.ok
                         /\ kmap'.elems[index] = value
                         /\ \A i \in 0 .. (N - 1) :
                                i # index => kmap'.elems[i] = kmap.elems[i]
                    ELSE ~last'.ok /\ kmap' = kmap
              [] OTHER -> kmap' = kmap]_vars

\* get returned a value that set had stored in an Array of two entries.
C26_Witness ==
    /\ kmap.map_type = "Array" /\ kmap.max_entries = 2
    /\ last.op = "Map::get" /\ last.ok /\ last.ret > 0
    /\ kmap.elems[0] # kmap.elems[1]

\* C27: a HashMap is created empty; get(k) fails when k is absent and
\* returns the value of k when present; insert(k, v) that returns Ok makes
\* v the value of k and leaves the other keys alone, and returns Ok when k
\* is present; remove(k) takes a present k out and fails on an absent k.
C27_HashMapInsertGetRemove ==
    [][kmap'.map_type = "Hash" =>
        LET key == last'.arg[1]
            val == last'.arg[2]
            present == key \in DOMAIN kmap.elems
        IN  CASE last'.op = "Map::with_capacity" -> DOMAIN kmap'.elems = {}
              [] last'.op = "Map::get" ->
                    /\ kmap' = kmap
                    /\ IF present THEN last'.ok /\ last'.ret = kmap.elems[key]
                       ELSE ~last'.ok
              [] last'.op = "Map::set" ->
                    /\ present => last'.ok
                    /\ IF last'.ok
                       THEN /\ DOMAIN kmap'.elems = DOMAIN kmap.elems \cup {key}
                            /\ kmap'.elems[key] = val
                            /\ \A k \in DOMAIN kmap.elems :
                                   k # key => kmap'.elems[k] = kmap.elems[k]
                       ELSE kmap' = kmap
              [] last'.op = "Map::del" ->
                    IF present
                    THEN /\ last'.ok
                         /\ DOMAIN kmap'.elems = DOMAIN kmap.elems \ {key}
                         /\ \A k \in DOMAIN kmap'.elems : kmap'.elems[k] = kmap.elems[k]
                    ELSE ~last'.ok /\ kmap' = kmap
              [] OTHER -> kmap' = kmap]_vars

\* remove returned Ok on a HashMap that still holds another key.
C27_Witness ==
    /\ kmap.map_type = "Hash"
    /\ last.op = "Map::del" /\ last.ok
    /\ DOMAIN kmap.elems # {} /\ last.arg[1] \notin DOMAIN kmap.elems

\* C28: a Queue of capacity C never holds more than C elements; push on a
\* Queue of fewer than C elements succeeds and adds the value at the back
\* (so C pushes on an empty Queue succeed); push on a full Queue fails and
\* leaves the contents alone; pop on an empty Queue fails.
C28_QueueBounded ==
    [][kmap'.map_type = "Queue" =>
        /\ Len(kmap'.elems) <= kmap'.max_entries
        /\ last'.op = "Map::set" =>
            IF Len(kmap.elems) < kmap.max_entries
            THEN last'.ok /\ kmap'.elems = Append(kmap.elems, last'.arg[2])
            ELSE ~last'.ok /\ kmap' = kmap
        /\ (last'.op = "Map::get_and_del" /\ kmap.elems = << >>) =>
            ~last'.ok /\ kmap' = kmap]_vars

\* push failed on a Queue of capacity two that holds two elements.
C28_Witness ==
    /\ kmap.map_type = "Queue" /\ kmap.max_entries = 2
    /\ last.op = "Map::set" /\ ~last.ok
    /\ Len(kmap.elems) = 2

\* C29: the values pop has returned, in order, are the first of the values
\* push has stored, in order.
C29_PoppedIsPrefixOfPushed ==
    /\ Len(fifo.popped) <= Len(fifo.pushed)
    /\ \A i \in 1 .. Len(fifo.popped) : fifo.popped[i] = fifo.pushed[i]

\* Two different values have been popped, and more pushed.
C29_Witness ==
    /\ Len(fifo.popped) >= 2 /\ fifo.popped[1] # fifo.popped[2]
    /\ Len(fifo.pushed) > Len(fifo.popped)

\* C30: front() on a Queue that holds something returns the oldest value
\* pushed and not yet popped and leaves the Queue as it was, so that
\* calling it again returns the same value, and the next pop() returns that
\* value; front() on an empty Queue fails.
C30_FrontPeeks ==
    [][kmap'.map_type = "Queue" =>
        LET oldest == fifo.pushed[Len(fifo.popped) + 1] IN
        /\ last'.op = "Map::get" =>
            /\ kmap' = kmap /\ fifo' = fifo
            /\ IF Len(fifo.pushed) > Len(fifo.popped)
               THEN last'.ok /\ last'.ret = oldest
               ELSE ~last'.ok
        /\ (last'.op = "Map::get_and_del" /\ last'.ok) => last'.ret = oldest]_vars

\* front returned on a Queue of two elements after a pop.
C30_Witness ==
    /\ kmap.map_type = "Queue"
    /\ last.op = "Map::get" /\ last.ok
    /\ Len(kmap.elems) = 2 /\ Len(fifo.popped) >= 1

\* C31: Map::with_capacity returns Ok only when the size of K and the size
\* of V fit the 32-bit fields of MapAttr, and the kernel was given those
\* sizes: never a size reduced modulo 2^32.
C31_OversizedRejected ==
    kmap.map_type # "none" =>
        /\ kmap.K <= U32Max /\ kmap.V <= U32Max
        /\ kmap.key_size = kmap.K /\ kmap.value_size = kmap.V

\* C32: call_bpf makes exactly one bpf system call; it returns
\* Err(SystemError(r)) with the kernel's answer r when r is negative and
\* Ok(r) when r is not.
C32_OneCallResultAsIs ==
    (last.op = "call_bpf" /\ last.err # "panic") =>
        /\ Len(last.calls) = 1
        /\ last.raw < 0 => ~last.ok /\ last.err = "SystemError" /\ last.ret = last.raw
        /\ last.raw >= 0 => last.ok /\ last.err = "none" /\ last.ret = last.raw

\* call_bpf returned Err on a record smaller than the buffer.
C32_Witness ==
    /\ last.op = "call_bpf" /\ ~last.ok /\ last.err = "SystemError"
    /\ last.raw = EINVAL /\ Len(last.arg) = 32

\* C33: for a record of s <= BPF_ATTR_SIZE bytes the kernel is handed a
\* buffer with the record at [0, s) and zero at [s, BPF_ATTR_SIZE), and the
\* size BPF_ATTR_SIZE; a larger record is not copied and no call is made.
C33_RecordThenZeros ==
    last.op = "call_bpf" =>
        LET s == Len(last.arg) IN
        IF s <= BPF_ATTR_SIZE
        THEN /\ last.calls # << >>
             /\ \A c \in Range(last.calls) :
                    /\ c.size = BPF_ATTR_SIZE
                    /\ DOMAIN c.buf = 1 .. BPF_ATTR_SIZE
                    /\ \A i \in 1 .. s : c.buf[i] = last.arg[i]
                    /\ \A i \in (s + 1) .. BPF_ATTR_SIZE : c.buf[i] = 0
        ELSE last.calls = << >> /\ last.err = "panic"

\* A record of 0xFF bytes, shorter than the buffer, was handed over.
C33_Witness ==
    /\ last.op = "call_bpf" /\ last.calls # << >>
    /\ Len(last.arg) = 16 /\ last.arg[16] = 255
    /\ last.calls[1].buf[16] = 255 /\ last.calls[1].buf[17] = 0

\* C34: an element operation of a map whose key type has size zero passes
\* the null address as the key to the kernel; with a key type of non-zero
\* size it passes the address of the caller's key.
C34_NullKeyForZeroSize ==
    last.op \in {"Map::get", "Map::set", "Map::del", "Map::get_and_del"} =>
        /\ Len(last.calls) = 1
        /\ last.calls[1].key = IF kmap.K = 0 THEN 0 ELSE last.calls[1].key_addr
        /\ last.calls[1].key_addr # 0

\* A queue, whose key type has no bytes, was pushed to and popped from.
C34_Witness ==
    /\ kmap.map_type = "Queue" /\ kmap.K = 0
    /\ last.op = "Map::get_and_del" /\ last.ok
    /\ last.calls[1].key = 0

\* C35: once the mutex of the mapping cache is poisoned it stays poisoned,
\* every get_map and get_map_mut that returns from then on returns the
\* lock-poisoned error (not SystemError, not a slice), no mmap is issued
\* and the cache is left as it is.
C35_PoisonedLockRefuses ==
    [][lock = Poisoned =>
        /\ lock' = Poisoned
        /\ mmap_calls' = mmap_calls /\ mapped_areas' = mapped_areas
        /\ ret_addrs' = ret_addrs
        /\ \A t \in Threads :
              thr[t].pc = "lock" /\ thr'[t] # thr[t] =>
                /\ thr'[t] = IdleThread
                /\ last' = LastErr("get_map", thr[t].area, 0, "MutexPoisoned")
        /\ (AllIdle /\ thr' = thr /\ map_state' = "live") =>
                /\ last'.op = "get_map_mut"
                /\ ~last'.ok /\ last'.err = "MutexPoisoned"]_vars

\* With the mutex poisoned, a get_map for an area that is in the cache
\* returned the lock-poisoned error.
C35_Witness ==
    /\ lock = Poisoned
    /\ last.op = "get_map" /\ last.err = "MutexPoisoned"
    /\ last.arg \in DOMAIN mapped_areas

\* C36: the consumer position that consume writes through the writable
\* mapping of the consumer page is the one the next len, is_empty or
\* get_buf reads through the read-only mapping of that page.
C36_WriteSeenThroughReadMapping ==
    [][/\ (last'.op = "consume" /\ last'.ok) =>
            ReadU32(PageWord(ConsumerArea.offset))' = last'.ret
       /\ (last.op = "consume" /\ last.ok /\ last'.ok
              /\ last'.op \in {"len", "is_empty"}) =>
            last'.raw.cons_pos = last.ret
       /\ (last.op = "consume" /\ last.ok /\ last'.ok /\ last'.op = "get_buf") =>
            last'.arg = last.ret % rb_capacity]_vars

\* len was called right after a consume that moved the position, the two
\* mappings of the consumer page being at different addresses.
C36_Witness ==
    /\ last.op = "len" /\ last.ok
    /\ last.raw.cons_pos > 0
    /\ last.raw.cons_pos = last.raw.prod_pos
    /\ mapped_areas[ConsumerArea] # mapped_areas[ConsumerAreaMut]

\* C37: an attach that returns an error leaves attach_fds as it was, and
\* attach_fds never holds an entry for a program that was attached in part:
\* an entry lists one event for every processor, or the one raw tracepoint.
C37_FailedAttachRecordsNothing ==
    [][/\ (last'.op = "attach" /\ ~last'.ok) => attach_fds' = attach_fds
       /\ \A k \in DOMAIN attach_fds' :
            Len(attach_fds'[k]) = IF attach_info' = "RawTracepoint" THEN 1 ELSE NumCpus]_vars

\* An attach failed after it had attached and enabled an event, and nothing
\* is recorded for its program.
C37_Witness ==
    /\ last.op = "attach" /\ ~last.ok
    /\ \E c \in Range(last.calls) : c.call = "enable" /\ c.ok
    /\ last.arg \notin DOMAIN attach_fds

\* C38: detach(program) closes only event descriptors that were created by
\* attaching that same program, also when an attached program was destroyed
\* without detach and a new program got its descriptor number.
C38_DetachClosesOwnEvents ==
    [][last'.op = "detach" =>
        \A i \in ProgIds :
            (prog[i].state = "live" /\ prog[i].fd = last'.arg) =>
                \A fd \in last'.fds : fdtab[fd].id = i]_vars

====
